---- MODULE Spec2Model ----
(***************************************************************************)
(* A model of injectbook's EPUB chapter-extraction pipeline                *)
(* (parseEpubToChapters and the helpers it calls).                         *)
(*                                                                         *)
(* Strings that the code inspects character by character (hrefs, titles,   *)
(* slugs, source paths) are sequences of one-character strings.  A         *)
(* markdown document is a sequence of blank-line separated blocks; a block *)
(* records its kind, its heading text and its number of words.             *)
(***************************************************************************)
EXTENDS Integers, Sequences, FiniteSets, TLC

(***************************************************************************)
(* Characters                                                              *)
(***************************************************************************)
UpperSeq ==
  <<"A","B","C","D","E","F","G","H","I","J","K","L","M",
    "N","O","P","Q","R","S","T","U","V","W","X","Y","Z">>

LowerSeq ==
  <<"a","b","c","d","e","f","g","h","i","j","k","l","m",
    "n","o","p","q","r","s","t","u","v","w","x","y","z">>

Upper == {UpperSeq[i] : i \in 1..Len(UpperSeq)}

Lower == {LowerSeq[i] : i \in 1..Len(LowerSeq)}

Digit == {"0","1","2","3","4","5","6","7","8","9"}

DigitSeq == <<"0","1","2","3","4","5","6","7","8","9">>

\* \s of the regular expressions
WhiteSpace == {" ", "\t", "\n"}

\* \w of the regular expressions
WordChar == Upper \cup Lower \cup Digit \cup {"_"}

ToLowerChar(c) ==
  IF c \in Upper THEN LowerSeq[CHOOSE i \in 1..Len(UpperSeq) : UpperSeq[i] = c] ELSE c

\* a function on 1..n as the tuple of its values
Tuple(f) == SubSeq(f, 1, Len(f))

\* String.prototype.toLowerCase
ToLowerCase(s) == Tuple([i \in 1..Len(s) |-> ToLowerChar(s[i])])

SetMin(S) == CHOOSE x \in S : \A y \in S : x <= y

SetMax(S) == CHOOSE x \in S : \A y \in S : x >= y

\* String.prototype.trim
Trim(s) ==
  LET keep == {i \in 1..Len(s) : s[i] \notin WhiteSpace}
  IN  IF keep = {} THEN <<>> ELSE SubSeq(s, SetMin(keep), SetMax(keep))

\* s.replace(/[set]/g, "")
RemoveChars(s, set) == SelectSeq(s, LAMBDA c : c \notin set)

\* s.replace(/[set]+/g, rep): every maximal run of characters of set becomes rep
CollapseRuns(s, set, rep) ==
  LET marked == [i \in 1..Len(s) |->
                   IF s[i] \in set
                     THEN (IF i > 1 /\ s[i-1] \in set THEN "" ELSE rep)
                     ELSE s[i]]
  IN  SelectSeq(marked, LAMBDA c : c # "")

\* s.split(/\s+/).filter(Boolean).length
CountWords(s) ==
  Cardinality({i \in 1..Len(s) :
                 s[i] \notin WhiteSpace /\ (i = 1 \/ s[i-1] \in WhiteSpace)})

\* the least index j <= i + 1 such that s[j..i] lies in set
RunBack(s, i, set) ==
  LET stops == {j \in 1..i : s[j] \notin set}
  IN  IF stops = {} THEN 1 ELSE SetMax(stops) + 1

\* the decimal numeral of a natural number
RECURSIVE Decimal(_)
Decimal(n) ==
  IF n < 10 THEN <<DigitSeq[n + 1]>> ELSE Decimal(n \div 10) \o <<DigitSeq[(n % 10) + 1]>>

\* the greatest index j >= i - 1 such that s[i..j] lies in set
RunFwd(s, i, set) ==
  LET stops == {j \in i..Len(s) : s[j] \notin set}
  IN  IF stops = {} THEN Len(s) ELSE SetMin(stops) - 1

(***************************************************************************)
(* Hrefs and slugs                                                         *)
(***************************************************************************)
\* value.split("#")[0].replace(/^\.\//, "").toLowerCase()
normalizeHrefKey(value) ==
  LET hashes   == {i \in 1..Len(value) : value[i] = "#"}
      beforeHash == IF hashes = {} THEN value ELSE SubSeq(value, 1, SetMin(hashes) - 1)
      noDot    == IF Len(beforeHash) >= 2 /\ beforeHash[1] = "." /\ beforeHash[2] = "/"
                    THEN SubSeq(beforeHash, 3, Len(beforeHash))
                    ELSE beforeHash
  IN  ToLowerCase(noDot)

\* Characters with a compatibility decomposition, named by their code point:
\* U+00E9 (e with acute) -> e, U+0301; U+FB01 (ligature fi) -> f, i;
\* U+00A0 (no-break space) -> space.  Every other character is its own NFKD.
NfkdChar(c) ==
  CASE c = "U+00E9" -> <<"e", "U+0301">>
    [] c = "U+FB01" -> <<"f", "i">>
    [] c = "U+00A0" -> <<" ">>
    [] OTHER        -> <<c>>

\* String.prototype.normalize("NFKD"); a decomposition has at most two characters
Nfkd(s) ==
  LET spread == [i \in 1..(2 * Len(s)) |->
                   LET d == NfkdChar(s[(i + 1) \div 2])
                   IN  IF i % 2 = 1 THEN d[1] ELSE IF Len(d) > 1 THEN d[2] ELSE ""]
  IN  SelectSeq(spread, LAMBDA c : c # "")

SlugMaxLen == 60

SlugChars == Lower \cup Digit \cup WhiteSpace \cup {"-"}

ChapterSlug == <<"c","h","a","p","t","e","r">>

\* slugify without its trim()
slugifyUntrimmed(value) ==
  LET kept      == SelectSeq(Nfkd(ToLowerCase(value)), LAMBDA c : c \in SlugChars)
      hyphened  == CollapseRuns(CollapseRuns(kept, WhiteSpace, "-"), {"-"}, "-")
      sliced    == SubSeq(hyphened, 1, IF Len(hyphened) < SlugMaxLen THEN Len(hyphened) ELSE SlugMaxLen)
  IN  IF sliced = <<>> THEN ChapterSlug ELSE sliced

slugify(value) ==
  LET kept      == SelectSeq(Nfkd(ToLowerCase(value)), LAMBDA c : c \in SlugChars)
      hyphened  == CollapseRuns(CollapseRuns(Trim(kept), WhiteSpace, "-"), {"-"}, "-")
      sliced    == SubSeq(hyphened, 1, IF Len(hyphened) < SlugMaxLen THEN Len(hyphened) ELSE SlugMaxLen)
  IN  IF sliced = <<>> THEN ChapterSlug ELSE sliced

(***************************************************************************)
(* Titles                                                                  *)
(***************************************************************************)
\* The ")" that can end a match of /\[(.*?)\]\((.*?)\)/ whose "[" is at index o
\* of s and whose "]" is at index j: "." matches no line terminator
LinkCloses(s, o, j) ==
  {k \in (j + 2)..Len(s) : s[k] = ")" /\ \A m \in (o + 1)..(k - 1) : s[m] # "\n"}

\* The match of /\[(.*?)\]\((.*?)\)/ (with bang: of /!\[(.*?)\]\((.*?)\)/) that
\* starts at index p of s: the index of its "]" and of its ")", or <<0, 0>>
LinkAt(s, p, bang) ==
  LET o == IF bang THEN p + 1 ELSE p
      J == IF (bang => s[p] = "!") /\ o <= Len(s) /\ s[o] = "["
             THEN {j \in (o + 1)..(Len(s) - 1) :
                     s[j] = "]" /\ s[j + 1] = "(" /\ LinkCloses(s, o, j) # {}}
             ELSE {}
  IN  IF J = {} THEN <<0, 0>> ELSE <<SetMin(J), SetMin(LinkCloses(s, o, SetMin(J)))>>

\* s.replace(/\[(.*?)\]\((.*?)\)/g, "$1"), or with bang
\* s.replace(/!\[(.*?)\]\((.*?)\)/g, "$1"), from index i on: the leftmost match
\* is replaced by its label and the scan resumes after it
RECURSIVE ReplaceLinksFrom(_, _, _)
ReplaceLinksFrom(s, i, bang) ==
  LET starts == {p \in i..Len(s) : LinkAt(s, p, bang)[1] # 0}
  IN  IF starts = {} THEN SubSeq(s, i, Len(s))
      ELSE LET p == SetMin(starts)
               m == LinkAt(s, p, bang)
           IN  SubSeq(s, i, p - 1)
                 \o SubSeq(s, (IF bang THEN p + 2 ELSE p + 1), m[1] - 1)
                 \o ReplaceLinksFrom(s, m[2] + 1, bang)

\* [*_`~]; the grave accent is named by its code point, U+0060
EmphasisChars == {"*", "_", "U+0060", "~"}

stripMarkdownTitleDecorations(value) ==
  ReplaceLinksFrom(ReplaceLinksFrom(RemoveChars(value, EmphasisChars), 1, TRUE), 1, FALSE)

\* the class [.\u2022 U+00B7 U+2022]: the full stop, the bullet and the middle dot
LeaderChars == {".", "U+2022", "U+00B7"}

MinLeaderRun == 3

\* s.replace(/\s*[leader]{3,}\s*\d+\s*$/g, "")
StripLeaderPageNumber(s) ==
  LET e == RunBack(s, Len(s), WhiteSpace) - 1
      d == RunBack(s, e, Digit)
      w == RunBack(s, d - 1, WhiteSpace)
      p == RunBack(s, w - 1, LeaderChars)
      q == RunBack(s, p - 1, WhiteSpace)
  IN  IF d <= e /\ w - p >= MinLeaderRun THEN SubSeq(s, 1, q - 1) ELSE s

\* s.replace(/\[\d+\]\s*$/g, "")
StripTrailingMarker(s) ==
  LET e == RunBack(s, Len(s), WhiteSpace) - 1
      d == RunBack(s, e - 1, Digit)
  IN  IF e >= 3 /\ s[e] = "]" /\ d <= e - 1 /\ d >= 2 /\ s[d - 1] = "["
        THEN SubSeq(s, 1, d - 2)
        ELSE s

cleanTitle(value) ==
  Trim(CollapseRuns(
         StripTrailingMarker(StripLeaderPageNumber(stripMarkdownTitleDecorations(value))),
         WhiteSpace, " "))

ChapterWord == <<"C","h","a","p","t","e","r">>

MaxTitleLength == 95

MaxTitleWords == 15

SentenceWords == 8

PunctuationWords == 12

PunctuationHits == 2

\* /[.?!]\s+[A-Z]/.test(s)
HasSentenceBreak(s) ==
  \E i \in 1..Len(s) :
    /\ s[i] \in {".", "?", "!"}
    /\ i < Len(s) /\ s[i + 1] \in WhiteSpace
    /\ LET j == RunFwd(s, i + 1, WhiteSpace) + 1 IN j <= Len(s) /\ s[j] \in Upper

\* cleaned.match(/^chapter\s+(\d+)\b(.*)$/i): the first and the last index of
\* the number, or <<0, 0>> when the title does not match
ChapterNumberSpan(cleaned) ==
  LET numFrom == RunFwd(cleaned, 8, WhiteSpace) + 1
      numTo   == RunFwd(cleaned, numFrom, Digit)
  IN  IF /\ Len(cleaned) >= 9
         /\ ToLowerCase(SubSeq(cleaned, 1, 7)) = ToLowerCase(ChapterWord)
         /\ numFrom > 8
         /\ numTo >= numFrom
         /\ (numTo = Len(cleaned) \/ cleaned[numTo + 1] \notin WordChar)
        THEN <<numFrom, numTo>>
        ELSE <<0, 0>>

\* suffix.replace(/^[:.\-]\s*/, "").trim(), of the trimmed suffix
NormalizedSuffix(suffix) ==
  IF suffix # <<>> /\ suffix[1] \in {":", ".", "-"}
    THEN Trim(SubSeq(suffix, 2, Len(suffix)))
    ELSE suffix

\* "Chapter <number>" or "Chapter <number>: <suffix>"
ChapterTitle(chapterNumber, normalizedSuffix) ==
  IF normalizedSuffix = <<>>
    THEN ChapterWord \o <<" ">> \o chapterNumber
    ELSE ChapterWord \o <<" ">> \o chapterNumber \o <<":", " ">> \o normalizedSuffix

\* words === 0 ? 0 : (cleaned.match(/[,;:]/g) ?? []).length
PunctuationCount(cleaned) ==
  Cardinality({i \in 1..Len(cleaned) : cleaned[i] \in {",", ";", ":"}})

\* applies the length and word-count rules before the numeric and chapter forms
NormalizeLengthFirst(cleaned, span, words, fallback) ==
  IF cleaned = <<>> THEN fallback
  ELSE IF Len(cleaned) > MaxTitleLength \/ words > MaxTitleWords THEN fallback
  ELSE IF \A i \in 1..Len(cleaned) : cleaned[i] \in Digit
    THEN ChapterWord \o <<" ">> \o cleaned
  ELSE IF span[1] # 0
    THEN ChapterTitle(SubSeq(cleaned, span[1], span[2]),
                      NormalizedSuffix(Trim(SubSeq(cleaned, span[2] + 1, Len(cleaned)))))
  ELSE IF HasSentenceBreak(cleaned) /\ words > SentenceWords THEN fallback
  ELSE IF words > PunctuationWords /\ PunctuationCount(cleaned) >= PunctuationHits
    THEN fallback
  ELSE cleaned

\* normalizeChapterTitle from its second statement on
NormalizeCleaned(cleaned, span, words, fallback) ==
  IF cleaned = <<>> THEN fallback
  ELSE IF \A i \in 1..Len(cleaned) : cleaned[i] \in Digit
    THEN ChapterWord \o <<" ">> \o cleaned
  ELSE IF span[1] # 0
    THEN ChapterTitle(SubSeq(cleaned, span[1], span[2]),
                      NormalizedSuffix(Trim(SubSeq(cleaned, span[2] + 1, Len(cleaned)))))
  ELSE IF Len(cleaned) > MaxTitleLength \/ words > MaxTitleWords THEN fallback
  ELSE IF HasSentenceBreak(cleaned) /\ words > SentenceWords THEN fallback
  ELSE IF words > PunctuationWords /\ PunctuationCount(cleaned) >= PunctuationHits
    THEN fallback
  ELSE cleaned

NormalizeSpanned(cleaned, fallback) ==
  NormalizeCleaned(cleaned, ChapterNumberSpan(cleaned), CountWords(cleaned), fallback)

normalizeChapterTitle(rawTitle, fallback) ==
  NormalizeSpanned(cleanTitle(rawTitle), fallback)

(***************************************************************************)
(* Markdown                                                                *)
(*                                                                         *)
(* A markdown document is the sequence of its blank-line separated blocks. *)
(* kind: "h1" / "h2" a heading line with its text; "p" a one-line          *)
(* paragraph of `words` words; "img" an image `![](src)`; "hr" a thematic  *)
(* break `---`; "fl" a paragraph that is one same-document link            *)
(* `[label](#frag)` with a one-word label; "decl" an <?xml ?> or           *)
(* <!DOCTYPE> line.  In a paragraph, word number legalWord (0: none) is    *)
(* "copyright", and, when noteEvery > 0, the words notePhase,              *)
(* notePhase + noteEvery, ... are citation markers such as "12.".          *)
(***************************************************************************)
Mk(kind, text, words, legalWord, noteEvery, notePhase) ==
  [kind |-> kind, text |-> text, words |-> words,
   legalWord |-> legalWord, noteEvery |-> noteEvery, notePhase |-> notePhase]

H1(text) == Mk("h1", text, 0, 0, 0, 0)

H2(text) == Mk("h2", text, 0, 0, 0, 0)

Para(words) == Mk("p", <<>>, words, 0, 0, 0)

LegalPara(words, legalWord) == Mk("p", <<>>, words, legalWord, 0, 0)

NotePara(words, noteEvery) == Mk("p", <<>>, words, 0, noteEvery, 1)

Img == Mk("img", <<>>, 0, 0, 0, 0)

Hr == Mk("hr", <<>>, 0, 0, 0, 0)

FragLink == Mk("fl", <<>>, 0, 0, 0, 0)

Decl == Mk("decl", <<>>, 0, 0, 0, 0)

\* the words of one block: block.split(/\s+/).filter(Boolean).length
BlockWords(b) ==
  CASE b.kind \in {"h1", "h2"} -> 1 + CountWords(b.text)
    [] b.kind = "p"            -> b.words
    [] OTHER                   -> 1

RECURSIVE SumWords(_)
SumWords(md) == IF md = <<>> THEN 0 ELSE BlockWords(Head(md)) + SumWords(Tail(md))

\* markdown.replace(/^---[\s\S]*?---/m, "").trim().split(/\s+/).filter(Boolean).length:
\* the text from the first `---` line to the next `---` is not counted
chapterWordCount(md) ==
  LET hrs == {i \in 1..Len(md) : md[i].kind = "hr"}
  IN  IF Cardinality(hrs) >= 2
        THEN LET a == SetMin(hrs)
                 b == SetMin(hrs \ {a})
             IN  SumWords(SubSeq(md, 1, a - 1)) + SumWords(SubSeq(md, b + 1, Len(md)))
        ELSE SumWords(md)

\* finalizeCleanup(nhm.translate(html), options) on the blocks of a document
CleanBlock(b, options) ==
  CASE b.kind = "decl" -> <<>>
    [] b.kind = "img"  -> IF options.stripImages THEN <<>> ELSE <<b>>
    [] b.kind = "fl"   -> IF options.stripInternalLinks THEN <<Para(1)>> ELSE <<>>
    [] OTHER           -> <<b>>

RECURSIVE finalizeCleanup(_, _)
finalizeCleanup(md, options) ==
  IF md = <<>> THEN <<>>
  ELSE CleanBlock(Head(md), options) \o finalizeCleanup(Tail(md), options)

\* markdown.match(/^#\s+(.+)$/m)?.[1]?.trim() || ""
firstHeading(md) ==
  LET hs == {i \in 1..Len(md) : md[i].kind = "h1"}
  IN  IF hs = {} THEN <<>> ELSE Trim(md[SetMin(hs)].text)

(***************************************************************************)
(* Splitting                                                               *)
(***************************************************************************)
\* words a..z of paragraph b, joined by single spaces
Piece(b, a, z) ==
  LET k     == b.noteEvery
      first == IF k = 0 THEN 0
               ELSE IF a <= b.notePhase THEN b.notePhase
               ELSE b.notePhase + (((a - b.notePhase) + k - 1) \div k) * k
  IN  Mk("p", <<>>, z - a + 1,
         IF a <= b.legalWord /\ b.legalWord <= z THEN b.legalWord - a + 1 ELSE 0,
         k, IF k = 0 THEN 0 ELSE first - a + 1)

\* Only paragraphs are ever larger than floor(1.5 x maxChapterWords) in the
\* documents of this model.
RECURSIVE PiecesFrom(_, _, _)
PiecesFrom(b, index, maxChapterWords) ==
  IF index > b.words THEN <<>>
  ELSE LET z == IF index + maxChapterWords - 1 < b.words
                  THEN index + maxChapterWords - 1 ELSE b.words
       IN  <<<<Piece(b, index, z)>>>> \o PiecesFrom(b, index + maxChapterWords, maxChapterWords)

\* cuts the block into pieces of floor(1.5 x maxChapterWords) words
splitOversizedPlainBlockWide(block, maxChapterWords) ==
  PiecesFrom(block, 1, (3 * maxChapterWords) \div 2)

splitOversizedPlainBlock(block, maxChapterWords) == PiecesFrom(block, 1, maxChapterWords)

\* the loop of splitMarkdownByWordCount with floor(1.5 x maxChapterWords) as
\* the size at which the running chunk is flushed
RECURSIVE ChunkLoopLenient(_, _, _, _, _, _)
ChunkLoopLenient(md, i, maxChapterWords, chunks, currentBlocks, currentWords) ==
  LET flushed == IF currentBlocks = <<>> THEN chunks ELSE Append(chunks, currentBlocks)
  IN  IF i > Len(md) THEN flushed
      ELSE
        LET block      == md[i]
            blockWords == chapterWordCount(<<block>>)
        IN  IF blockWords > (3 * maxChapterWords) \div 2
              THEN ChunkLoopLenient(md, i + 1, maxChapterWords,
                                    flushed \o splitOversizedPlainBlock(block, maxChapterWords),
                                    <<>>, 0)
            ELSE IF currentWords > 0
                    /\ currentWords + blockWords > (3 * maxChapterWords) \div 2
              THEN ChunkLoopLenient(md, i + 1, maxChapterWords, flushed, <<block>>, blockWords)
            ELSE ChunkLoopLenient(md, i + 1, maxChapterWords, chunks,
                                  Append(currentBlocks, block), currentWords + blockWords)

\* the loop of splitMarkdownByWordCount from block number i on; flushCurrent
\* appends the running chunk, when it is not empty, to chunks
RECURSIVE ChunkLoop(_, _, _, _, _, _)
ChunkLoop(md, i, maxChapterWords, chunks, currentBlocks, currentWords) ==
  LET flushed == IF currentBlocks = <<>> THEN chunks ELSE Append(chunks, currentBlocks)
  IN  IF i > Len(md) THEN flushed
      ELSE
        LET block      == md[i]
            blockWords == chapterWordCount(<<block>>)
        IN  IF blockWords > (3 * maxChapterWords) \div 2
              THEN ChunkLoop(md, i + 1, maxChapterWords,
                             flushed \o splitOversizedPlainBlock(block, maxChapterWords),
                             <<>>, 0)
            ELSE IF currentWords > 0 /\ currentWords + blockWords > maxChapterWords
              THEN ChunkLoop(md, i + 1, maxChapterWords, flushed, <<block>>, blockWords)
            ELSE ChunkLoop(md, i + 1, maxChapterWords, chunks,
                           Append(currentBlocks, block), currentWords + blockWords)

splitMarkdownByWordCount(markdown, maxChapterWords) ==
  ChunkLoop(markdown, 1, maxChapterWords, <<>>, <<>>, 0)

\* the sections that start at the heading blocks numbered in rest, in order
RECURSIVE SectionsAt(_, _, _)
SectionsAt(markdown, matches, rest) ==
  IF rest = {} THEN <<>>
  ELSE LET i     == SetMin(rest)
           later == {j \in matches : j > i}
           end   == IF later = {} THEN Len(markdown) ELSE SetMin(later) - 1
       IN  <<[title    |-> cleanTitle(Trim(markdown[i].text)),
              markdown |-> SubSeq(markdown, i, end)]>>
             \o SectionsAt(markdown, matches, rest \ {i})

\* divides at the headings of both levels, as the pattern ^#{1,2}\s would
splitMarkdownByAnyHeading(markdown, level) ==
  LET matches == {i \in 1..Len(markdown) : markdown[i].kind \in {"h1", "h2"}}
  IN  IF Cardinality(matches) < 2 THEN <<>> ELSE SectionsAt(markdown, matches, matches)

\* level is "h1" or "h2"
splitMarkdownByHeading(markdown, level) ==
  LET matches == {i \in 1..Len(markdown) : markdown[i].kind = level}
  IN  IF Cardinality(matches) < 2 THEN <<>> ELSE SectionsAt(markdown, matches, matches)

\* previousWordCount + currentWordCount <= maxChapterWords * 1.25
FitsMerged(a, b, maxChapterWords) == 4 * (a + b) <= 5 * maxChapterWords

\* the for loop of mergeTinySections at (1-based) position index
RECURSIVE MergeLoop(_, _, _, _)
MergeLoop(merged, index, minSectionWords, maxChapterWords) ==
  IF index > Len(merged) THEN merged
  ELSE
    LET previousWordCount == chapterWordCount(merged[index - 1].markdown)
        currentWordCount  == chapterWordCount(merged[index].markdown)
    IN  IF currentWordCount < minSectionWords
           /\ FitsMerged(previousWordCount, currentWordCount, maxChapterWords)
          THEN MergeLoop(
                 SubSeq(merged, 1, index - 2)
                   \o <<[merged[index - 1] EXCEPT !.markdown = @ \o merged[index].markdown]>>
                   \o SubSeq(merged, index + 1, Len(merged)),
                 index, minSectionWords, maxChapterWords)
          ELSE MergeLoop(merged, index + 1, minSectionWords, maxChapterWords)

\* the statements of mergeTinySections after its for loop
MergeFirst(merged, minSectionWords, maxChapterWords) ==
  IF /\ Len(merged) > 1
     /\ chapterWordCount(merged[1].markdown) < minSectionWords
     /\ FitsMerged(chapterWordCount(merged[1].markdown),
                   chapterWordCount(merged[2].markdown), maxChapterWords)
    THEN <<[merged[2] EXCEPT !.markdown = merged[1].markdown \o @]>>
           \o SubSeq(merged, 3, Len(merged))
    ELSE merged

mergeTinySections(sections, minSectionWords, maxChapterWords) ==
  MergeFirst(MergeLoop(sections, 2, minSectionWords, maxChapterWords),
             minSectionWords, maxChapterWords)

PartWord == <<" ","P","a","r","t"," ">>

PartMarker == <<"#","p","a","r","t","-">>

\* sections.length > 0 ? sections : splitMarkdownByHeading(chapter.markdown, 2)
FallbackSections(sections, markdown) ==
  IF Len(sections) > 0 THEN sections ELSE splitMarkdownByHeading(markdown, "h2")

\* the sections splitLargeChapter maps to chapters; <<>> when it takes the
\* word-count fallback
MergedSections(fallbackSections, options) ==
  IF Len(fallbackSections) >= 2
    THEN mergeTinySections(fallbackSections, options.minSectionWords, options.maxChapterWords)
    ELSE <<>>

\* one chapter of the result of splitLargeChapter; index is 1-based
SplitChapter(chapter, index, sectionTitle, markdown) ==
  [index      |-> chapter.index,
   title      |-> sectionTitle,
   slug       |-> slugify(sectionTitle),
   sourceFile |-> chapter.sourceFile \o PartMarker \o Decimal(index),
   markdown   |-> markdown,
   wordCount  |-> chapterWordCount(markdown)]

\* numbers the parts from 0, as the callback of map numbers them
PartTitleFromZero(chapter, index) == chapter.title \o PartWord \o Decimal(index - 1)

\* `${chapter.title} Part ${index + 1}`
PartTitle(chapter, index) == chapter.title \o PartWord \o Decimal(index)

\* splits without the test of chapter.wordCount
SplitIntoAlways(chapter, options, merged, fallbackWordChunks) ==
  IF Len(merged) >= 2
    THEN Tuple([index \in 1..Len(merged) |->
            SplitChapter(chapter, index,
                         normalizeChapterTitle(merged[index].title, PartTitle(chapter, index)),
                         merged[index].markdown)])
  ELSE IF Len(fallbackWordChunks) < 2 THEN <<chapter>>
  ELSE Tuple([index \in 1..Len(fallbackWordChunks) |->
          SplitChapter(chapter, index, PartTitle(chapter, index), fallbackWordChunks[index])])

\* titles every section with its heading as it stands
SplitIntoHeadingVerbatim(chapter, options, merged, fallbackWordChunks) ==
  IF chapter.wordCount <= options.maxChapterWords THEN <<chapter>>
  ELSE IF Len(merged) >= 2
    THEN Tuple([index \in 1..Len(merged) |->
            SplitChapter(chapter, index, merged[index].title, merged[index].markdown)])
  ELSE IF Len(fallbackWordChunks) < 2 THEN <<chapter>>
  ELSE Tuple([index \in 1..Len(fallbackWordChunks) |->
          SplitChapter(chapter, index, PartTitle(chapter, index), fallbackWordChunks[index])])

SplitInto(chapter, options, merged, fallbackWordChunks) ==
  IF chapter.wordCount <= options.maxChapterWords THEN <<chapter>>
  ELSE IF Len(merged) >= 2
    THEN Tuple([index \in 1..Len(merged) |->
            SplitChapter(chapter, index,
                         normalizeChapterTitle(merged[index].title, PartTitle(chapter, index)),
                         merged[index].markdown)])
  ELSE IF Len(fallbackWordChunks) < 2 THEN <<chapter>>
  ELSE Tuple([index \in 1..Len(fallbackWordChunks) |->
          SplitChapter(chapter, index, PartTitle(chapter, index), fallbackWordChunks[index])])

splitLargeChapter(chapter, options) ==
  SplitInto(chapter, options,
            MergedSections(
              FallbackSections(splitMarkdownByHeading(chapter.markdown, "h1"), chapter.markdown),
              options),
            splitMarkdownByWordCount(chapter.markdown, options.maxChapterWords))

(***************************************************************************)
(* Boilerplate classification                                              *)
(***************************************************************************)
\* the end positions of the occurrences of pat in s
OccurrenceEnds(s, pat) ==
  {i + Len(pat) - 1 : i \in {i \in 1..(Len(s) - Len(pat) + 1) :
                               SubSeq(s, i, i + Len(pat) - 1) = pat}}

\* /\b(pat)\b/.test(s)
HasWholeWord(s, pat) ==
  \E e \in OccurrenceEnds(s, pat) :
    /\ (e = Len(s) \/ s[e + 1] \notin WordChar)
    /\ (e = Len(pat) \/ s[e - Len(pat)] \notin WordChar)

\* cover|title page|contents|table of contents|about the author|by the same author|copyright page
FrontMatterTitles ==
  {<<"c","o","v","e","r">>,
   <<"t","i","t","l","e"," ","p","a","g","e">>,
   <<"c","o","n","t","e","n","t","s">>,
   <<"t","a","b","l","e"," ","o","f"," ","c","o","n","t","e","n","t","s">>,
   <<"a","b","o","u","t"," ","t","h","e"," ","a","u","t","h","o","r">>,
   <<"b","y"," ","t","h","e"," ","s","a","m","e"," ","a","u","t","h","o","r">>,
   <<"c","o","p","y","r","i","g","h","t"," ","p","a","g","e">>}

\* notes|endnotes|index|bibliography|references
BackMatterTitles ==
  {<<"n","o","t","e","s">>,
   <<"e","n","d","n","o","t","e","s">>,
   <<"i","n","d","e","x">>,
   <<"b","i","b","l","i","o","g","r","a","p","h","y">>,
   <<"r","e","f","e","r","e","n","c","e","s">>}

\* project gutenberg|gutenberg license|full license|terms of use|copyright|all rights reserved
LegalPhrases ==
  {<<"p","r","o","j","e","c","t"," ","g","u","t","e","n","b","e","r","g">>,
   <<"g","u","t","e","n","b","e","r","g"," ","l","i","c","e","n","s","e">>,
   <<"f","u","l","l"," ","l","i","c","e","n","s","e">>,
   <<"t","e","r","m","s"," ","o","f"," ","u","s","e">>,
   <<"c","o","p","y","r","i","g","h","t">>,
   <<"a","l","l"," ","r","i","g","h","t","s"," ","r","e","s","e","r","v","e","d">>}

KeepWords == {<<"i","n","d","e","x">>, <<"g","l","o","s","s","a","r","y">>}

LegalMaxWords == 4000

SampleChars == 2500

NoteMatchesMin == 30

NoteMaxWords == 15000

NoteLinesMax == 350

NoteLinesMin == 40

NoteLinePercent == 33

\* the length of a plain word and of the word "copyright"
WordChars == 5

LegalWordChars == 9

\* the length of `![](i.png)`
ImageChars == 10

BlockChars(b) ==
  CASE b.kind = "h1" -> 2 + Len(b.text)
    [] b.kind = "h2" -> 3 + Len(b.text)
    [] b.kind = "p"  -> (WordChars + 1) * b.words - 1
                          + (IF b.legalWord > 0 THEN LegalWordChars - WordChars ELSE 0)
    [] b.kind = "hr" -> 3
    [] OTHER         -> ImageChars

\* where, counted from the start of the block, its occurrences of a legal phrase end
BlockLegalEnds(b) ==
  CASE b.kind = "h1" ->
         {2 + e : e \in UNION {OccurrenceEnds(ToLowerCase(b.text), ph) : ph \in LegalPhrases}}
    [] b.kind = "h2" ->
         {3 + e : e \in UNION {OccurrenceEnds(ToLowerCase(b.text), ph) : ph \in LegalPhrases}}
    [] b.kind = "p" /\ b.legalWord > 0 ->
         {(WordChars + 1) * (b.legalWord - 1) + LegalWordChars}
    [] OTHER -> {}

\* the number of characters of markdown before block number i
RECURSIVE BlockOffset(_, _)
BlockOffset(md, i) ==
  IF i = 1 THEN 0 ELSE BlockOffset(md, i - 1) + BlockChars(md[i - 1]) + 2

\* contentPattern.test(markdown.slice(0, 2500).toLowerCase())
LegalInSample(md) ==
  \E i \in 1..Len(md) :
    \E e \in BlockLegalEnds(md[i]) : BlockOffset(md, i) + e <= SampleChars

\* the matches of the inline marker pattern in one block: a marker followed by a word
BlockNotes(b) ==
  IF b.kind = "p" /\ b.noteEvery > 0 /\ b.notePhase <= b.words - 1
    THEN (b.words - 1 - b.notePhase) \div b.noteEvery + 1
    ELSE 0

\* the line of the block starts with a marker
BlockNoteLine(b) == b.kind = "p" /\ b.noteEvery > 0 /\ b.notePhase = 1 /\ b.words > 1

RECURSIVE SumNotes(_)
SumNotes(md) == IF md = <<>> THEN 0 ELSE BlockNotes(Head(md)) + SumNotes(Tail(md))

isLikelyNoteDenseMarkdown(markdown) ==
  LET inlineNoteMatches == SumNotes(markdown)
      lines == SubSeq(markdown, 1, IF Len(markdown) < NoteLinesMax THEN Len(markdown) ELSE NoteLinesMax)
      noteLikeLines == Cardinality({i \in 1..Len(lines) : BlockNoteLine(lines[i])})
  IN  IF inlineNoteMatches >= NoteMatchesMin /\ chapterWordCount(markdown) <= NoteMaxWords
        THEN TRUE
      ELSE IF Len(lines) < NoteLinesMin THEN FALSE
      ELSE 100 * noteLikeLines >= NoteLinePercent * Len(lines)

\* the rules with the legal rule's maxWords left out
RulesWithoutLimit ==
  <<[id |-> "title-front-matter", kind |-> "hard", maxWords |-> -1],
    [id |-> "title-back-matter", kind |-> "hard", maxWords |-> -1],
    [id |-> "legal-license", kind |-> "soft", maxWords |-> -1],
    [id |-> "notes-content-density", kind |-> "hard", maxWords |-> -1]>>

BOILERPLATE_RULES ==
  <<[id |-> "title-front-matter", kind |-> "hard", maxWords |-> -1],
    [id |-> "title-back-matter", kind |-> "hard", maxWords |-> -1],
    [id |-> "legal-license", kind |-> "soft", maxWords |-> LegalMaxWords],
    [id |-> "notes-content-density", kind |-> "hard", maxWords |-> -1]>>

\* the title patterns without their i flag
RuleMatchesCaseSensitive(rule, chapter, normalizedTitle) ==
  CASE rule.id = "title-front-matter" -> Trim(normalizedTitle) \in FrontMatterTitles
    [] rule.id = "title-back-matter"  -> Trim(normalizedTitle) \in BackMatterTitles
    [] rule.id = "legal-license"      ->
         \/ \E ph \in LegalPhrases : OccurrenceEnds(ToLowerCase(normalizedTitle), ph) # {}
         \/ LegalInSample(chapter.markdown)
    [] rule.id = "notes-content-density" -> isLikelyNoteDenseMarkdown(chapter.markdown)

\* titlePattern, contentPattern or predicate of the rule matches
RuleMatches(rule, chapter, normalizedTitle) ==
  CASE rule.id = "title-front-matter" -> ToLowerCase(Trim(normalizedTitle)) \in FrontMatterTitles
    [] rule.id = "title-back-matter"  -> ToLowerCase(Trim(normalizedTitle)) \in BackMatterTitles
    [] rule.id = "legal-license"      ->
         \/ \E ph \in LegalPhrases : OccurrenceEnds(ToLowerCase(normalizedTitle), ph) # {}
         \/ LegalInSample(chapter.markdown)
    [] rule.id = "notes-content-density" -> isLikelyNoteDenseMarkdown(chapter.markdown)

\* the rule loop without the test for index and glossary before it
MatchesWithoutOverride(chapter, normalizedTitle) ==
  \E r \in 1..Len(BOILERPLATE_RULES) :
    /\ RuleMatches(BOILERPLATE_RULES[r], chapter, normalizedTitle)
    /\ \/ BOILERPLATE_RULES[r].kind = "hard"
       \/ BOILERPLATE_RULES[r].maxWords < 0
       \/ chapter.wordCount <= BOILERPLATE_RULES[r].maxWords

\* isBoilerplateChapter from its second statement on
MatchesBoilerplate(chapter, normalizedTitle) ==
  IF \E w \in KeepWords : HasWholeWord(ToLowerCase(normalizedTitle), w) THEN FALSE
  ELSE \E r \in 1..Len(BOILERPLATE_RULES) :
         /\ RuleMatches(BOILERPLATE_RULES[r], chapter, normalizedTitle)
         /\ \/ BOILERPLATE_RULES[r].kind = "hard"
            \/ BOILERPLATE_RULES[r].maxWords < 0
            \/ chapter.wordCount <= BOILERPLATE_RULES[r].maxWords

\* classifies without looking at options.filterBoilerplate
ClassifiesAlways(chapter, options) == MatchesBoilerplate(chapter, cleanTitle(chapter.title))

isBoilerplateChapter(chapter, options) ==
  IF ~options.filterBoilerplate THEN FALSE
  ELSE MatchesBoilerplate(chapter, cleanTitle(chapter.title))

(***************************************************************************)
(* The archive and the parse options                                       *)
(***************************************************************************)
VARIABLES
  parseOptions,         \* resolveParseOptions(options)
  spineHrefs,           \* deriveSpineHrefs(spine, manifest): the reading order
  zip,                  \* the archive: entry path -> document, or NoEntry
  navItems,             \* the <li> anchors of the navigation document's first <ol>
  ncx,                  \* the navPoint nodes of the legacy navigation map
  epub,                 \* what the archive holds of container.xml and of the OPF file
  pc,                   \* where parseEpubToChapters stands
  preferredTocEntries,  \* const preferredTocEntries
  preferredHrefSet,     \* const preferredHrefSet
  chapterHrefs,         \* const chapterHrefs
  index,                \* the loop variable of `for (const [index, href] of ...)`
  chapters,             \* const chapters: Chapter[]
  sawImageOnlyContent,  \* let sawImageOnlyContent
  filteredAndSplit,     \* const filteredAndSplit
  returned,             \* the chapters of the returned result
  thrown,               \* the CliError thrown, or NoError
  splitPc,              \* where a call of splitLargeChapter stands
  splitChapter,         \* its argument chapter
  splitOptions,         \* its argument options
  splitResult,          \* the list it returns
  classifyPc,           \* where a call of isBoilerplateChapter stands
  classifyChapter,      \* its argument chapter
  classifyOptions,      \* its argument options
  classifyResult,       \* the boolean it returns
  slugPc,               \* where the calls of slugify stand
  slugValue,            \* the argument of the first call
  slugOnce,             \* slugify(value)
  slugTwice,            \* slugify(slugify(value))
  convPc,               \* where convertBook stands
  convOptions,          \* options.overwrite and options.keepTemp
  convEnv,              \* the terminal, the answer typed at the prompt, the step that fails
  outDir,               \* the output directory on disk
  tempDir,              \* let tempDir and the directory it names on disk
  conversionSucceeded,  \* let conversionSucceeded
  convError,            \* the error in flight, then the error convertBook rejects with
  convLog,              \* what has happened to outDir so far
  callPc,               \* where a call of a single function stands
  callee,               \* the function that is called
  callArgs,             \* its arguments
  callResult            \* what it returns

vars == <<parseOptions, spineHrefs, zip, navItems, ncx, epub, pc, preferredTocEntries,
          preferredHrefSet, chapterHrefs, index, chapters, sawImageOnlyContent,
          filteredAndSplit, returned, thrown, splitPc, splitChapter, splitOptions,
          splitResult, classifyPc, classifyChapter, classifyOptions, classifyResult,
          slugPc, slugValue, slugOnce, slugTwice, convPc, convOptions, convEnv, outDir,
          tempDir, conversionSucceeded, convError, convLog, callPc, callee, callArgs,
          callResult>>

split == <<splitPc, splitChapter, splitOptions, splitResult>>

classify == <<classifyPc, classifyChapter, classifyOptions, classifyResult>>

slugs == <<slugPc, slugValue, slugOnce, slugTwice>>

convInput == <<convOptions, convEnv>>

convert == <<convPc, convInput, outDir, tempDir, conversionSucceeded, convError, convLog>>

\* the calls of single functions other than splitLargeChapter
call == <<callPc, callee, callArgs, callResult>>

others == <<classify, slugs, convert, call>>

input == <<parseOptions, spineHrefs, zip, navItems, ncx, epub>>

toc == <<preferredTocEntries, preferredHrefSet, chapterHrefs>>

NoEntry == [img |-> FALSE, blocks |-> <<>>, entry |-> FALSE]

\* an entry of the archive: whether its markup has an <img tag, and the
\* blocks NodeHtmlMarkdown renders it to
Html(img, blocks) == [img |-> img, blocks |-> blocks, entry |-> TRUE]

NoError == [name |-> "none", code |-> 0, message |-> "none"]

CliError(message, code) == [name |-> "CliError", code |-> code, message |-> message]

ExitParse == 4

opfDir == <<"O","E","B","P","S">>

\* path.posix.normalize(path.posix.join(opfDir, href)) for an href that is a
\* file name, possibly written "./name" and possibly followed by a fragment
normalizedPathOf(href) ==
  opfDir \o <<"/">> \o
    (IF Len(href) >= 2 /\ href[1] = "." /\ href[2] = "/" THEN SubSeq(href, 3, Len(href)) ELSE href)

(***************************************************************************)
(* The table of contents                                                   *)
(***************************************************************************)
\* the loop of parseNavEntries over the <li> children
parseNavEntries(items) ==
  LET labelled == [i \in 1..Len(items) |->
                     [href  |-> items[i].href,
                      title |-> cleanTitle(Trim(CollapseRuns(items[i].text, WhiteSpace, " ")))]]
  IN  SelectSeq(labelled, LAMBDA e : e.href # <<>> /\ e.title # <<>>)

\* the loop of parseNcxEntries over asArray(parsed?.ncx?.navMap?.navPoint)
parseNcxEntries(navPoints) ==
  LET usable == SelectSeq(navPoints, LAMBDA node : node.strings /\ Trim(node.text) # <<>>)
  IN  Tuple([i \in 1..Len(usable) |-> [href |-> usable[i].src, title |-> Trim(usable[i].text)]])

\* toTocHrefSet
toTocHrefSet(entries) == {normalizeHrefKey(entries[i].href) : i \in 1..Len(entries)}

\* toTocLabelMap(entries).get(key); <<>> when the map has no such key
TocLabel(entries, key) ==
  LET hits == {i \in 1..Len(entries) : normalizeHrefKey(entries[i].href) = key}
  IN  IF hits = {} THEN <<>> ELSE cleanTitle(entries[SetMin(hits)].title)

\* prefers the entries of the legacy map when it has any
PreferLegacy(navEntries, ncxEntries) == IF Len(ncxEntries) > 0 THEN ncxEntries ELSE navEntries

\* navEntries.length > 0 ? navEntries : ncxEntries
PreferredOf(navEntries, ncxEntries) == IF Len(navEntries) > 0 THEN navEntries ELSE ncxEntries

\* the reading order restricted to the table of contents, also when that
\* leaves nothing
RestrictedHrefsOf(hrefSet, spine) ==
  IF Cardinality(hrefSet) > 0
    THEN SelectSeq(spine, LAMBDA href : normalizeHrefKey(href) \in hrefSet)
    ELSE spine

\* tocMatchedSpineHrefs.length > 0 ? tocMatchedSpineHrefs : spineHrefs
ChapterHrefsOf(hrefSet, spine) ==
  LET tocMatchedSpineHrefs ==
        IF Cardinality(hrefSet) > 0
          THEN SelectSeq(spine, LAMBDA href : normalizeHrefKey(href) \in hrefSet)
          ELSE spine
  IN  IF Len(tocMatchedSpineHrefs) > 0 THEN tocMatchedSpineHrefs ELSE spine

(***************************************************************************)
(* parseEpubToChapters                                                     *)
(***************************************************************************)
\* the statements of parseEpubToChapters before its loop
\* container.xml: "absent" when the archive has no such entry, else what
\* rootfile["full-path"] is; the OPF file: "absent", "noPackage" or "package"
ContainerKinds == {"absent", "noPath", "emptyPath", "notString", "path"}

OpfKinds == {"absent", "noPackage", "package"}

Sound == [container |-> "path", opf |-> "package"]

\* extractContainerOpfPath(zip)
ExtractContainerOpfPath ==
  /\ pc = "open"
  /\ IF epub.container = "absent"
       THEN /\ thrown' = CliError("EPUB is missing META-INF/container.xml", ExitParse)
            /\ pc' = "thrown"
     ELSE IF epub.container # "path"
       THEN /\ thrown' = CliError("Could not resolve OPF path", ExitParse)
            /\ pc' = "thrown"
     ELSE /\ pc' = "opf"
          /\ UNCHANGED thrown
  /\ UNCHANGED <<split, others, input, toc, index, chapters, sawImageOnlyContent, filteredAndSplit,
                 returned>>

\* goes on whatever the OPF entry holds
ParseOpfUnchecked ==
  /\ pc = "opf"
  /\ pc' = "start"
  /\ UNCHANGED <<split, others, input, toc, index, chapters, sawImageOnlyContent, filteredAndSplit,
                 returned, thrown>>

\* parseOpf(zip, opfPath)
ParseOpf ==
  /\ pc = "opf"
  /\ IF epub.opf = "absent"
       THEN /\ thrown' = CliError("OPF file not found", ExitParse)
            /\ pc' = "thrown"
     ELSE IF epub.opf = "noPackage"
       THEN /\ thrown' = CliError("Invalid OPF package file", ExitParse)
            /\ pc' = "thrown"
     ELSE /\ pc' = "start"
          /\ UNCHANGED thrown
  /\ UNCHANGED <<split, others, input, toc, index, chapters, sawImageOnlyContent, filteredAndSplit,
                 returned>>

ResolveToc ==
  /\ pc = "start"
  /\ LET entries == PreferredOf(parseNavEntries(navItems), parseNcxEntries(ncx))
     IN  /\ preferredTocEntries' = entries
         /\ preferredHrefSet' = toTocHrefSet(entries)
         /\ chapterHrefs' = ChapterHrefsOf(toTocHrefSet(entries), spineHrefs)
  /\ pc' = "render"
  /\ UNCHANGED <<split, others, input, index, chapters, sawImageOnlyContent, filteredAndSplit,
                 returned, thrown>>

\* takes every document whose markdown is empty for one of images only
ImageOnlyAssumed(saw, options, entry) == saw \/ options.stripImages

\* sawImageOnlyContent after a document whose markdown is empty:
\* if (parseOptions.stripImages && /<img\b/i.test(html)) sawImageOnlyContent = true
ImageOnlySeen(saw, options, entry) == saw \/ (options.stripImages /\ entry.img)

\* one iteration of the loop over chapterHrefs.entries()
RenderChapter ==
  /\ pc = "render"
  /\ index < Len(chapterHrefs)
  /\ LET href           == chapterHrefs[index + 1]
         normalizedPath == normalizedPathOf(href)
         entry          == zip[normalizedPath]
         markdown       == finalizeCleanup(entry.blocks, parseOptions)
         defaultTitle   == ChapterWord \o <<" ">> \o Decimal(index + 1)
         hrefKey        == normalizeHrefKey(href)
         tocTitle       == TocLabel(preferredTocEntries, hrefKey)
         heading        == firstHeading(markdown)
         candidate      == IF tocTitle # <<>> THEN tocTitle
                           ELSE IF heading # <<>> THEN heading
                           ELSE IF Cardinality(preferredHrefSet) > 0 THEN <<>>
                           ELSE defaultTitle
         title          == normalizeChapterTitle(candidate, defaultTitle)
     IN  IF ~entry.entry
           THEN UNCHANGED <<chapters, sawImageOnlyContent>>
         ELSE IF markdown = <<>>
           THEN /\ sawImageOnlyContent' =
                     ImageOnlySeen(sawImageOnlyContent, parseOptions, entry)
                /\ UNCHANGED chapters
         ELSE IF title = <<>>
           THEN UNCHANGED <<chapters, sawImageOnlyContent>>
         ELSE /\ chapters' = Append(chapters,
                               [index      |-> index + 1,
                                title      |-> title,
                                slug       |-> slugify(title),
                                sourceFile |-> normalizedPath,
                                markdown   |-> markdown,
                                wordCount  |-> chapterWordCount(markdown)])
              /\ UNCHANGED sawImageOnlyContent
  /\ index' = index + 1
  /\ UNCHANGED <<split, others, input, toc, pc, filteredAndSplit, returned, thrown>>

\* flattens with the fragments of later chapters first
RECURSIVE FlatSplitReversed(_, _)
FlatSplitReversed(list, options) ==
  IF list = <<>> THEN <<>>
  ELSE FlatSplitReversed(Tail(list), options) \o splitLargeChapter(Head(list), options)

\* chapters.flatMap((chapter) => splitLargeChapter(chapter, parseOptions))
RECURSIVE FlatSplit(_, _)
FlatSplit(list, options) ==
  IF list = <<>> THEN <<>>
  ELSE splitLargeChapter(Head(list), options) \o FlatSplit(Tail(list), options)

\* keeps every chapter and empties the ones that are boilerplate
KeepContentBlanked(list, options) ==
  Tuple([i \in 1..Len(list) |->
           IF isBoilerplateChapter(list[i], options)
             THEN [list[i] EXCEPT !.markdown = <<>>, !.wordCount = 0]
             ELSE list[i]])

KeepContent(list, options) == SelectSeq(list, LAMBDA chapter : ~isBoilerplateChapter(chapter, options))

\* filter, flatMap, filter
FilterAndSplit ==
  /\ pc = "render"
  /\ index = Len(chapterHrefs)
  /\ filteredAndSplit' =
       KeepContent(FlatSplit(KeepContent(chapters, parseOptions), parseOptions), parseOptions)
  /\ pc' = "filtered"
  /\ UNCHANGED <<split, others, input, toc, index, chapters, sawImageOnlyContent, returned, thrown>>

\* throws the image-only error with a code of its own
ThrowImageOnlyOwnCode ==
  /\ pc = "filtered"
  /\ Len(filteredAndSplit) = 0
  /\ sawImageOnlyContent
  /\ thrown' = CliError("image-only, OCR is required", 3)
  /\ pc' = "thrown"
  /\ UNCHANGED <<split, others, input, toc, index, chapters, sawImageOnlyContent, filteredAndSplit,
                 returned>>

ThrowImageOnly ==
  /\ pc = "filtered"
  /\ Len(filteredAndSplit) = 0
  /\ sawImageOnlyContent
  /\ thrown' = CliError("image-only, OCR is required", ExitParse)
  /\ pc' = "thrown"
  /\ UNCHANGED <<split, others, input, toc, index, chapters, sawImageOnlyContent, filteredAndSplit,
                 returned>>

ThrowNoContent ==
  /\ pc = "filtered"
  /\ Len(filteredAndSplit) = 0
  /\ ~sawImageOnlyContent
  /\ thrown' = CliError("no chapter content", ExitParse)
  /\ pc' = "thrown"
  /\ UNCHANGED <<split, others, input, toc, index, chapters, sawImageOnlyContent, filteredAndSplit,
                 returned>>

\* returns the list with the indices the loop gave, without the final map
ReturnUnindexed ==
  /\ pc = "filtered"
  /\ Len(filteredAndSplit) # 0
  /\ returned' = filteredAndSplit
  /\ pc' = "returned"
  /\ UNCHANGED <<split, others, input, toc, index, chapters, sawImageOnlyContent, filteredAndSplit,
                 thrown>>

\* returns whatever is left, without the test of filteredAndSplit.length
ReturnUnguarded ==
  /\ pc = "filtered"
  /\ returned' = Tuple([idx \in 1..Len(filteredAndSplit) |->
                          [filteredAndSplit[idx] EXCEPT !.index = idx]])
  /\ pc' = "returned"
  /\ UNCHANGED <<split, others, input, toc, index, chapters, sawImageOnlyContent, filteredAndSplit,
                 thrown>>

\* reindex and return
ReturnChapters ==
  /\ pc = "filtered"
  /\ Len(filteredAndSplit) # 0
  /\ returned' = Tuple([idx \in 1..Len(filteredAndSplit) |->
                          [filteredAndSplit[idx] EXCEPT !.index = idx]])
  /\ pc' = "returned"
  /\ UNCHANGED <<split, others, input, toc, index, chapters, sawImageOnlyContent, filteredAndSplit,
                 thrown>>

\* a call splitLargeChapter(chapter, options)
SplitLargeChapter ==
  /\ splitPc = "called"
  /\ splitResult' = splitLargeChapter(splitChapter, splitOptions)
  /\ splitPc' = "returned"
  /\ UNCHANGED <<splitChapter, splitOptions, others, input, toc, pc, index, chapters,
                 sawImageOnlyContent, filteredAndSplit, returned, thrown>>

\* a call isBoilerplateChapter(chapter, options)
IsBoilerplateChapter ==
  /\ classifyPc = "called"
  /\ classifyResult' = isBoilerplateChapter(classifyChapter, classifyOptions)
  /\ classifyPc' = "returned"
  /\ UNCHANGED <<classifyChapter, classifyOptions, slugs, convert, call, split, input, toc, pc, index, chapters,
                 sawImageOnlyContent, filteredAndSplit, returned, thrown>>

\* a call slugify(value)
Slugify ==
  /\ slugPc = "called"
  /\ slugOnce' = slugify(slugValue)
  /\ slugPc' = "once"
  /\ UNCHANGED <<slugValue, slugTwice, classify, convert, call, split, input, toc, pc, index, chapters,
                 sawImageOnlyContent, filteredAndSplit, returned, thrown>>

\* a call of slugify on the slug the first call returned
SlugifyAgain ==
  /\ slugPc = "once"
  /\ slugTwice' = slugify(slugOnce)
  /\ slugPc' = "twice"
  /\ UNCHANGED <<slugValue, slugOnce, classify, convert, call, split, input, toc, pc, index, chapters,
                 sawImageOnlyContent, filteredAndSplit, returned, thrown>>

(***************************************************************************)
(* convertBook                                                             *)
(***************************************************************************)
parser == <<input, toc, pc, index, chapters, sawImageOnlyContent, filteredAndSplit,
            returned, thrown>>

ExitInput == 2

ExitDependency == 3

ExitWrite == 5

\* an error that is not a CliError
PlainError(message) == [name |-> "Error", code |-> 0, message |-> message]

\* answer.trim().toLowerCase().startsWith('y')
StartsWithY(answer) ==
  LET trimmed == ToLowerCase(Trim(answer))
  IN  Len(trimmed) >= 1 /\ trimmed[1] = "y"

\* fs.existsSync(outDir)
OutDirExists == outDir # "absent"

\* looksLikeSkillDir(outDir): it holds SKILL.md or references
looksLikeSkillDir == outDir \in {"skill", "written", "partial"}

\* assertReadableFile, the test of maxChapterWords, ensureCalibreAvailable
CheckArguments ==
  /\ convPc = "called"
  /\ IF convEnv.fails = "input"
       THEN /\ convError' = CliError("invalid input", ExitInput)
            /\ convPc' = "threw"
     ELSE IF convEnv.fails = "dependency"
       THEN /\ convError' = CliError("Calibre is missing", ExitDependency)
            /\ convPc' = "threw"
     ELSE /\ convPc' = "try"
          /\ UNCHANGED convError
  /\ UNCHANGED <<convInput, outDir, tempDir, conversionSucceeded, convLog, classify, slugs,
                 split, call, parser>>

\* tempDir = fs.mkdtempSync(...)
MakeTempDir ==
  /\ convPc = "try"
  /\ IF convEnv.fails = "mkdtemp"
       THEN /\ convError' = PlainError("mkdtemp failed")
            /\ convPc' = "catch"
            /\ UNCHANGED tempDir
       ELSE /\ tempDir' = "present"
            /\ convPc' = "normalize"
            /\ UNCHANGED convError
  /\ UNCHANGED <<convInput, outDir, conversionSucceeded, convLog, classify, slugs, split, call, parser>>

\* await normalizeInputWithCalibre(...)
NormalizeInput ==
  /\ convPc = "normalize"
  /\ IF convEnv.fails = "calibre"
       THEN /\ convError' = CliError("Calibre conversion failed", ExitParse)
            /\ convPc' = "catch"
       ELSE /\ convPc' = "parse"
            /\ UNCHANGED convError
  /\ UNCHANGED <<convInput, outDir, tempDir, conversionSucceeded, convLog, classify, slugs,
                 split, call, parser>>

\* parseEpubToChapters(normalizedPath, ...)
ParseNormalized ==
  /\ convPc = "parse"
  /\ IF convEnv.fails = "parse"
       THEN /\ convError' = CliError("no chapter content", ExitParse)
            /\ convPc' = "catch"
       ELSE /\ convPc' = "guard"
            /\ UNCHANGED convError
  /\ UNCHANGED <<convInput, outDir, tempDir, conversionSucceeded, convLog, classify, slugs,
                 split, call, parser>>

\* returns without a test, as for a directory that looks like a skill
EnsureSafeOverwriteUnprompted ==
  /\ convPc = "guard"
  /\ convPc' = "write"
  /\ UNCHANGED <<convInput, outDir, tempDir, conversionSucceeded, convError, convLog, classify,
                 slugs, split, call, parser>>

\* await ensureSafeOverwrite(outputDir, options.overwrite)
EnsureSafeOverwrite ==
  /\ convPc = "guard"
  /\ IF ~convOptions.overwrite \/ ~OutDirExists \/ looksLikeSkillDir
       THEN /\ convPc' = "write"
            /\ UNCHANGED <<convError, convLog>>
     ELSE IF ~convEnv.isTTY
       THEN /\ convError' = CliError("Target directory is not a skill.", ExitInput)
            /\ convPc' = "catch"
            /\ UNCHANGED convLog
     ELSE IF StartsWithY(convEnv.answer)
       THEN /\ convLog' = [convLog EXCEPT !.asked = TRUE, !.confirmed = TRUE]
            /\ convPc' = "write"
            /\ UNCHANGED convError
     ELSE /\ convLog' = [convLog EXCEPT !.asked = TRUE]
          /\ convError' = CliError("Overwrite cancelled by user.", ExitInput)
          /\ convPc' = "catch"
  /\ UNCHANGED <<convInput, outDir, tempDir, conversionSucceeded, classify, slugs, split, call, parser>>

\* writeSkill(...), conversionSucceeded = true, return
WriteSkill ==
  /\ convPc = "write"
  /\ IF OutDirExists /\ ~convOptions.overwrite
       THEN /\ convError' = CliError("Output directory already exists", ExitWrite)
            /\ convLog' = [convLog EXCEPT !.writeSkill = TRUE]
            /\ convPc' = "catch"
            /\ UNCHANGED <<outDir, conversionSucceeded>>
     ELSE /\ convLog' = [convLog EXCEPT !.writeSkill = TRUE,
                                         !.removed = IF OutDirExists THEN outDir ELSE @]
          /\ IF convEnv.fails = "write"
               THEN /\ outDir' = "partial"
                    /\ convError' = PlainError("write failed")
                    /\ convPc' = "catch"
                    /\ UNCHANGED conversionSucceeded
               ELSE /\ outDir' = "written"
                    /\ conversionSucceeded' = TRUE
                    /\ convPc' = "finally"
                    /\ UNCHANGED convError
  /\ UNCHANGED <<convInput, tempDir, classify, slugs, split, call, parser>>

\* catch (error): rethrows a CliError, wraps any other error
Catch ==
  /\ convPc = "catch"
  /\ convError' = IF convError.name = "CliError" THEN convError
                  ELSE CliError("Book conversion failed", ExitParse)
  /\ convPc' = "finally"
  /\ UNCHANGED <<convInput, outDir, tempDir, conversionSucceeded, convLog, classify, slugs,
                 split, call, parser>>

\* removes the temporary directory whenever there is one
FinallyRemoveAlways ==
  /\ convPc = "finally"
  /\ tempDir' = IF tempDir = "present" THEN "removed" ELSE tempDir
  /\ convPc' = IF convError = NoError THEN "returned" ELSE "threw"
  /\ UNCHANGED <<convInput, outDir, conversionSucceeded, convError, convLog, classify, slugs,
                 split, call, parser>>

\* finally: fs.rmSync(tempDir, ...) if (conversionSucceeded || !options.keepTemp)
Finally ==
  /\ convPc = "finally"
  /\ tempDir' = IF tempDir = "present" /\ (conversionSucceeded \/ ~convOptions.keepTemp)
                  THEN "removed" ELSE tempDir
  /\ convPc' = IF convError = NoError THEN "returned" ELSE "threw"
  /\ UNCHANGED <<convInput, outDir, conversionSucceeded, convError, convLog, classify, slugs,
                 split, call, parser>>

(***************************************************************************)
(* Calls of single functions                                               *)
(***************************************************************************)
\* what a call of a single function leaves alone
callFrame == <<callee, callArgs, classify, slugs, convert, split, parser>>

\* a call normalizeChapterTitle(rawTitle, fallback)
NormalizeChapterTitle ==
  /\ callPc = "called"
  /\ callee = "normalizeChapterTitle"
  /\ callResult' = normalizeChapterTitle(callArgs.rawTitle, callArgs.fallback)
  /\ callPc' = "returned"
  /\ UNCHANGED callFrame

\* a call mergeTinySections(sections, minSectionWords, maxChapterWords)
MergeTinySections ==
  /\ callPc = "called"
  /\ callee = "mergeTinySections"
  /\ callResult' = mergeTinySections(callArgs.sections, callArgs.minSectionWords,
                                     callArgs.maxChapterWords)
  /\ callPc' = "returned"
  /\ UNCHANGED callFrame

\* a call splitMarkdownByWordCount(markdown, maxChapterWords)
SplitMarkdownByWordCount ==
  /\ callPc = "called"
  /\ callee = "splitMarkdownByWordCount"
  /\ callResult' = splitMarkdownByWordCount(callArgs.markdown, callArgs.maxChapterWords)
  /\ callPc' = "returned"
  /\ UNCHANGED callFrame

\* a call finalizeCleanup(markdown, options)
FinalizeCleanup ==
  /\ callPc = "called"
  /\ callee = "finalizeCleanup"
  /\ callResult' = finalizeCleanup(callArgs.markdown, callArgs.options)
  /\ callPc' = "returned"
  /\ UNCHANGED callFrame

Next ==
  \/ ExtractContainerOpfPath
  \/ ParseOpf
  \/ ResolveToc
  \/ RenderChapter
  \/ FilterAndSplit
  \/ ThrowImageOnly
  \/ ThrowNoContent
  \/ ReturnChapters

(***************************************************************************)
(* Inputs                                                                  *)
(***************************************************************************)
DEFAULT_PARSE_OPTIONS ==
  [stripImages |-> TRUE, stripInternalLinks |-> TRUE, filterBoilerplate |-> TRUE,
   maxChapterWords |-> 15000, minSectionWords |-> 300]

\* the options of the tests that split: { maxChapterWords: 40, minSectionWords: 10 }
SmallMaxChapterWords == 40

SmallMinSectionWords == 10

OptionSets ==
  {[stripImages |-> si, stripInternalLinks |-> sl, filterBoilerplate |-> fb,
    maxChapterWords |-> size[1], minSectionWords |-> size[2]] :
     si \in BOOLEAN, sl \in BOOLEAN, fb \in BOOLEAN,
     size \in {<<DEFAULT_PARSE_OPTIONS.maxChapterWords, DEFAULT_PARSE_OPTIONS.minSectionWords>>,
               <<SmallMaxChapterWords, SmallMinSectionWords>>}}

MaxSpineLen == 2

SeqsUpTo(S, n) == UNION {[1..k -> S] : k \in 0..n}

TitleEssay == <<"T","h","e"," ","E","s","s","a","y">>

TitleContents == <<"T","a","b","l","e"," ","o","f"," ","C","o","n","t","e","n","t","s">>

TitleLicense == <<"L","i","c","e","n","s","e">>

TitlePartA == <<"P","a","r","t"," ","A">>

TitlePartB == <<"P","a","r","t"," ","B">>

TitleHeading == <<"H","e","a","d","i","n","g"," ","T","i","t","l","e">>

LabelNav == <<"N","a","v"," ","T","i","t","l","e"," ","[","4","5","6","]">>

LabelNcx == <<"N","C","X"," ","T","i","t","l","e"," ","[","1","2","3","]">>

LabelOne == <<"C","h","a","p","t","e","r"," ","O","n","e">>

\* a label of 16 words
LabelNoisy ==
  <<"h","e"," ","s","a","i","d"," ","s","o"," ","a","n","d"," ","w","e"," ","d","i","d"," ","g","o"," ","o","n"," ","t","o"," ","d","o"," ","i","t"," ","a","s"," ","h","e"," ","h","a","d"," ","u","s"," ","d","o"," ","i","t">>

\* 26 words and 122 characters
LongSuffix == <<"h","e"," ","s","a","i","d"," ","s","o",","," ","a","n","d"," ","w","e"," ","d","i","d"," ","g","o"," ","o","n",";"," ","t","o"," ","d","o"," ","i","t"," ","a","s"," ","h","e"," ","h","a","d"," ","u","s"," ","d","o"," ","i","t","."," ","A","n","d"," ","t","h","e","n"," ","m","o","r","e"," ","w","o","r","d","s"," ","f","o","l","l","o","w"," ","h","e","r","e"," ","t","o"," ","p","a","s","s"," ","n","i","n","e","t","y"," ","f","i","v","e"," ","c","h","a","r","a","c","t","e","r","s">>

\* sixteen words
ManyWords == <<"a"," ","b"," ","c"," ","d"," ","e"," ","f"," ","g"," ","h"," ","i"," ","j"," ","k"," ","l"," ","m"," ","n"," ","o"," ","p">>

\* a heading of chapter and a number with a suffix of more than 15 words
TitleLongChapter == <<"c","h","a","p","t","e","r"," ","7"," ">> \o ManyWords

HrefA == <<"a">>

HrefB == <<"b">>

HrefDotB == <<".","/","B">>

HrefAFrag == <<"A","#","s","1">>

HrefBFrag == <<"b","#","s","2">>

HrefStale == <<"g","o","n","e">>

DocImageOnly == Html(TRUE, <<Decl, Img, Img>>)

DocBlank == Html(FALSE, <<Decl>>)

DocEssay == Html(FALSE, <<H1(TitleEssay), Para(3)>>)

DocPlain == Html(FALSE, <<Para(5)>>)

DocContents == Html(TRUE, <<H1(TitleContents), Img, Para(2)>>)

DocLicense == Html(FALSE, <<H1(TitleLicense), LegalPara(6, 2)>>)

DocParts == Html(FALSE, <<H1(TitlePartA), Para(60), H1(TitlePartB), Para(60)>>)

DocLong == Html(FALSE, <<Para(45), Para(45), Para(45)>>)

DocFragLink == Html(TRUE, <<Img, FragLink>>)

DocHeading == Html(FALSE, <<H1(TitleHeading), Para(2)>>)

ContentDocs ==
  {DocImageOnly, DocBlank, DocEssay, DocPlain, DocContents, DocLicense, DocParts, DocLong,
   DocFragLink}

TocDocs == {DocHeading, DocPlain, DocImageOnly}

Paths == {normalizedPathOf(h) : h \in {HrefA, HrefB, HrefDotB}}

\* the archives that hold documents of docs at the paths the reading order names
ZipsFor(spine, docs) ==
  {z \in [Paths -> docs \cup {NoEntry}] :
     \A p \in Paths :
       (\A i \in 1..Len(spine) : normalizedPathOf(spine[i]) # p) => z[p] = NoEntry}

Li(href, text) == [href |-> href, text |-> text]

NavPoint(src, text, children) ==
  [src |-> src, text |-> text, strings |-> TRUE, children |-> children]

NavChoices ==
  {<<>>,
   <<Li(HrefAFrag, LabelNav)>>,
   <<Li(HrefBFrag, LabelNoisy)>>,
   <<Li(HrefStale, LabelOne)>>,
   <<Li(<<>>, LabelOne)>>}

NcxChoices ==
  {<<>>,
   <<NavPoint(HrefA, LabelNcx, <<>>)>>,
   <<NavPoint(HrefStale, LabelOne, <<NavPoint(HrefBFrag, LabelOne, <<>>)>>)>>,
   <<NavPoint(HrefA, LabelNcx, <<NavPoint(HrefBFrag, LabelOne, <<>>)>>)>>,
   <<NavPoint(HrefA, LabelNcx, <<>>), NavPoint(HrefBFrag, LabelOne, <<>>)>>}

Start ==
  /\ preferredTocEntries = <<>>
  /\ preferredHrefSet = {}
  /\ chapterHrefs = <<>>
  /\ index = 0
  /\ chapters = <<>>
  /\ sawImageOnlyContent = FALSE
  /\ filteredAndSplit = <<>>
  /\ returned = <<>>
  /\ thrown = NoError

NoChapter ==
  [index |-> 0, title |-> <<>>, slug |-> <<>>, sourceFile |-> <<>>, markdown |-> <<>>,
   wordCount |-> 0]

\* no call of splitLargeChapter apart from those of the pipeline
NoSplit ==
  /\ splitPc = "idle"
  /\ splitChapter = NoChapter
  /\ splitOptions = DEFAULT_PARSE_OPTIONS
  /\ splitResult = <<>>

\* no call of isBoilerplateChapter apart from those of the pipeline
NoClassify ==
  /\ classifyPc = "idle"
  /\ classifyChapter = NoChapter
  /\ classifyOptions = DEFAULT_PARSE_OPTIONS
  /\ classifyResult = FALSE

\* no call of slugify apart from those of the pipeline
NoSlugify ==
  /\ slugPc = "idle"
  /\ slugValue = <<>>
  /\ slugOnce = <<>>
  /\ slugTwice = <<>>

\* no call of convertBook
NoConvert ==
  /\ convPc = "idle"
  /\ convOptions = [overwrite |-> FALSE, keepTemp |-> FALSE]
  /\ convEnv = [isTTY |-> FALSE, answer |-> <<>>, fails |-> "nothing"]
  /\ outDir = "absent"
  /\ tempDir = "undefined"
  /\ conversionSucceeded = FALSE
  /\ convError = NoError
  /\ convLog = [asked |-> FALSE, confirmed |-> FALSE, writeSkill |-> FALSE, removed |-> "nothing"]

\* no call of another single function
NoCall ==
  /\ callPc = "idle"
  /\ callee = "none"
  /\ callArgs = <<>>
  /\ callResult = <<>>

NoOthers == NoClassify /\ NoSlugify /\ NoConvert /\ NoCall

\* no call of parseEpubToChapters
NoParse ==
  /\ parseOptions = DEFAULT_PARSE_OPTIONS
  /\ spineHrefs = <<>>
  /\ zip = [p \in Paths |-> NoEntry]
  /\ navItems = <<>>
  /\ ncx = <<>>
  /\ epub = Sound
  /\ pc = "idle"
  /\ Start

\* archives that vary in content, under every setting of the options
InitContent ==
  /\ parseOptions \in OptionSets
  /\ spineHrefs \in SeqsUpTo({HrefA, HrefB}, MaxSpineLen)
  /\ zip \in ZipsFor(spineHrefs, ContentDocs)
  /\ navItems = <<>>
  /\ ncx \in {<<>>, <<NavPoint(HrefA, LabelOne, <<>>)>>}
  /\ epub = Sound
  /\ pc = "open"
  /\ Start
  /\ NoSplit
  /\ NoOthers

\* archives that vary in their tables of contents, under the default options
InitToc ==
  /\ parseOptions = DEFAULT_PARSE_OPTIONS
  /\ spineHrefs \in SeqsUpTo({HrefA, HrefDotB}, MaxSpineLen)
  /\ zip \in ZipsFor(spineHrefs, TocDocs)
  /\ navItems \in NavChoices
  /\ ncx \in NcxChoices
  /\ epub = Sound
  /\ pc = "open"
  /\ Start
  /\ NoSplit
  /\ NoOthers

\* archives whose container.xml or OPF file is missing or malformed
InitBroken ==
  /\ parseOptions \in OptionSets
  /\ spineHrefs = <<HrefA>>
  /\ zip \in ZipsFor(spineHrefs, {DocEssay, DocImageOnly})
  /\ navItems = <<>>
  /\ ncx = <<>>
  /\ epub \in [container : ContainerKinds, opf : OpfKinds] \ {Sound}
  /\ pc = "open"
  /\ Start
  /\ NoSplit
  /\ NoOthers

Init == InitContent \/ InitToc \/ InitBroken

Spec == Init /\ [][Next]_vars

(***************************************************************************)
(* Archives with a long chapter                                            *)
(***************************************************************************)
\* more than 4000 words
LongWords == 4001

\* a maxChapterWords under which a chapter of LongWords words is split into
\* fragments of at most 4000 words
MidMaxChapterWords == 2000

\* a maxChapterWords under which a chapter of LongWords words is split and
\* its long paragraph stays whole
WideMaxChapterWords == 3000

\* an essay of more than 4000 words with the word copyright in its first line
DocLongLegal == Html(FALSE, <<H1(TitleEssay), LegalPara(LongWords, 2)>>)

LongDocs == {DocLongLegal, DocEssay, DocLicense, DocImageOnly, DocBlank}

LongOptionSets ==
  {[DEFAULT_PARSE_OPTIONS EXCEPT !.filterBoilerplate = fb,
                                 !.maxChapterWords = size[1],
                                 !.minSectionWords = size[2]] :
     fb \in BOOLEAN,
     size \in {<<DEFAULT_PARSE_OPTIONS.maxChapterWords, DEFAULT_PARSE_OPTIONS.minSectionWords>>,
               <<MidMaxChapterWords, DEFAULT_PARSE_OPTIONS.minSectionWords>>,
               <<WideMaxChapterWords, DEFAULT_PARSE_OPTIONS.minSectionWords>>}}

InitLong ==
  /\ parseOptions \in LongOptionSets
  /\ spineHrefs \in SeqsUpTo({HrefA, HrefB}, MaxSpineLen)
  /\ zip \in ZipsFor(spineHrefs, LongDocs)
  /\ navItems = <<>>
  /\ ncx = <<>>
  /\ epub = Sound
  /\ pc = "open"
  /\ Start
  /\ NoSplit
  /\ NoOthers

SpecLong == InitLong /\ [][Next]_vars

(***************************************************************************)
(* splitLargeChapter on its own                                            *)
(***************************************************************************)
MaxBlocks == 4

\* a paragraph larger than floor(1.5 x SmallMaxChapterWords)
HugeWords == 70

LargeMinSectionWords == 50

TinyMinSectionWords == 3

SmallWords == 12

SplitBlocks ==
  {H1(TitlePartA), H1(TitlePartB), H1(LabelNoisy), H1(TitleLongChapter), H2(TitleEssay),
   Hr, Para(SmallWords), Para(45), Para(HugeWords)}

\* a chapter as the loop of parseEpubToChapters pushes it
ChapterOf(position, title, sourceFile, markdown) ==
  [index      |-> position,
   title      |-> title,
   slug       |-> slugify(title),
   sourceFile |-> sourceFile,
   markdown   |-> markdown,
   wordCount  |-> chapterWordCount(markdown)]

SplitOptionSets ==
  {[DEFAULT_PARSE_OPTIONS EXCEPT !.maxChapterWords = SmallMaxChapterWords,
                                 !.minSectionWords = m] :
     m \in {TinyMinSectionWords, SmallMinSectionWords, LargeMinSectionWords}}

InitSplit ==
  /\ \E markdown \in SeqsUpTo(SplitBlocks, MaxBlocks) \ {<<>>} :
       splitChapter = ChapterOf(1, LabelOne, normalizedPathOf(HrefA), markdown)
  /\ splitOptions \in SplitOptionSets
  /\ splitResult = <<>>
  /\ splitPc = "called"
  /\ NoParse
  /\ NoOthers

NextSplit == SplitLargeChapter

SpecSplit == InitSplit /\ [][NextSplit]_vars

(***************************************************************************)
(* isBoilerplateChapter on its own                                         *)
(***************************************************************************)
\* the titles the hard rules name, in mixed case and with blanks around them
HardTitles ==
  {<<"C","o","v","e","r">>, <<"T","I","T","L","E"," ","P","A","G","E">>, <<" ","C","o","n","t","e","n","t","s"," ">>, TitleContents, <<"A","b","o","u","t"," ","T","h","e"," ","A","u","t","h","o","r">>,
   <<"b","y"," ","t","h","e"," ","s","a","m","e"," ","a","u","t","h","o","r">>, <<"C","o","p","y","r","i","g","h","t"," ","P","a","g","e">>, <<"N","o","t","e","s">>, <<"E","N","D","N","O","T","E","S">>,
   <<"B","i","b","l","i","o","g","r","a","p","h","y"," ">>, <<"R","e","f","e","r","e","n","c","e","s">>}

\* titles with the word index or glossary
KeptTitles ==
  {<<"I","n","d","e","x">>, <<"I","N","D","E","X">>, <<"G","l","o","s","s","a","r","y"," ","o","f"," ","C","o","p","y","r","i","g","h","t">>, <<"N","a","m","e"," ","i","n","d","e","x">>}

\* titles of neither kind: two with a legal phrase, two without
OtherTitles ==
  {<<"T","e","r","m","s"," ","o","f"," ","U","s","e">>, <<"T","H","E"," ","F","U","L","L"," ","P","R","O","J","E","C","T"," ","G","U","T","E","N","B","E","R","G"," ","L","I","C","E","N","S","E">>, TitleEssay, <<"I","n","d","e","x","i","n","g"," ","N","o","t","e","s">>}

ClassifyTitles == HardTitles \cup KeptTitles \cup OtherTitles

\* a paragraph whose markers make it note dense
DenseWords == 90

ClassifyDocs ==
  {<<Para(3)>>,
   <<LegalPara(6, 2)>>,
   <<Para(LegalMaxWords)>>,
   <<LegalPara(LegalMaxWords, 2)>>,
   <<Para(LongWords)>>,
   <<LegalPara(LongWords, 2)>>,
   <<LegalPara(LongWords, LongWords)>>,
   <<NotePara(DenseWords, 3)>>,
   <<LegalPara(6, 2), NotePara(DenseWords, 3)>>,
   <<H1(TitleLicense), Para(LongWords), NotePara(DenseWords, 3)>>}

InitClassify ==
  /\ \E title \in ClassifyTitles, markdown \in ClassifyDocs :
       classifyChapter = ChapterOf(1, title, normalizedPathOf(HrefA), markdown)
  /\ classifyOptions \in {DEFAULT_PARSE_OPTIONS,
                          [DEFAULT_PARSE_OPTIONS EXCEPT !.filterBoilerplate = FALSE]}
  /\ classifyResult = FALSE
  /\ classifyPc = "called"
  /\ NoParse
  /\ NoSplit
  /\ NoSlugify
  /\ NoConvert
  /\ NoCall

NextClassify == IsBoilerplateChapter

SpecClassify == InitClassify /\ [][NextClassify]_vars

(***************************************************************************)
(* slugify on its own                                                      *)
(***************************************************************************)
WordLen == 29

\* a word of WordLen letters
LongWord == [i \in 1..WordLen |-> LowerSeq[(i % 26) + 1]]

MaxAtoms == 4

\* the pieces values are put together from
SlugAtoms ==
  {LongWord, <<" ">>, <<"-">>, <<"!">>, <<"A">>, <<"1">>, <<"U+00E9">>, <<"U+00A0">>}

RECURSIVE Concat(_)
Concat(pieces) == IF pieces = <<>> THEN <<>> ELSE Head(pieces) \o Concat(Tail(pieces))

\* slugify(" Chapter: One! ")
SlugExample == <<" ","C","h","a","p","t","e","r",":"," ","O","n","e","!"," ">>

SlugValues == {Concat(pieces) : pieces \in SeqsUpTo(SlugAtoms, MaxAtoms)} \cup {SlugExample}

InitSlugify ==
  /\ slugValue \in SlugValues
  /\ slugOnce = <<>>
  /\ slugTwice = <<>>
  /\ slugPc = "called"
  /\ NoParse
  /\ NoSplit
  /\ NoClassify
  /\ NoConvert
  /\ NoCall

NextSlugify == Slugify \/ SlugifyAgain

SpecSlugify == InitSlugify /\ [][NextSlugify]_vars

(***************************************************************************)
(* convertBook on its own                                                  *)
(***************************************************************************)
Answers == {<<>>, <<"y">>, <<" ","Y","e","s">>, <<"n">>, <<"n","o"," ","w","a","y">>}

FailingSteps == {"nothing", "input", "dependency", "mkdtemp", "calibre", "parse", "write"}

\* "absent", a directory with SKILL.md or references, any other directory
OutDirs == {"absent", "skill", "other"}

InitConvert ==
  /\ convPc = "called"
  /\ convOptions \in [overwrite : BOOLEAN, keepTemp : BOOLEAN]
  /\ convEnv \in [isTTY : BOOLEAN, answer : Answers, fails : FailingSteps]
  /\ outDir \in OutDirs
  /\ tempDir = "undefined"
  /\ conversionSucceeded = FALSE
  /\ convError = NoError
  /\ convLog = [asked |-> FALSE, confirmed |-> FALSE, writeSkill |-> FALSE, removed |-> "nothing"]
  /\ NoParse
  /\ NoSplit
  /\ NoClassify
  /\ NoSlugify
  /\ NoCall

NextConvert ==
  \/ CheckArguments
  \/ MakeTempDir
  \/ NormalizeInput
  \/ ParseNormalized
  \/ EnsureSafeOverwrite
  \/ WriteSkill
  \/ Catch
  \/ Finally

SpecConvert == InitConvert /\ [][NextConvert]_vars

(***************************************************************************)
(* normalizeChapterTitle on its own                                        *)
(***************************************************************************)
\* the word chapter in three letter cases, with one blank or two after it
ChapterPrefixes == {<<"C","h","a","p","t","e","r"," ">>, <<"c","h","a","p","t","e","r"," ">>, <<"C","H","A","P","T","E","R"," "," ">>}

TitleNumbers == {<<"7">>, <<"1","2">>, <<"0","4","2">>}

\* what follows the number, and what the canonical title has after ": "
TitleSuffixes ==
  {<<<<>>, <<>>>>,
   <<<<":">>, <<>>>>,
   <<<<":"," ","T","h","e"," ","T","r","i","a","l">>, <<"T","h","e"," ","T","r","i","a","l">>>>,
   <<<<" ","T","h","e"," ","T","r","i","a","l">>, <<"T","h","e"," ","T","r","i","a","l">>>>,
   <<<<" ","-"," ","T","h","e"," ","T","r","i","a","l">>, <<"T","h","e"," ","T","r","i","a","l">>>>,
   <<<<".","T","h","e"," ","T","r","i","a","l">>, <<"T","h","e"," ","T","r","i","a","l">>>>,
   <<<<":"," ","-"," ","x">>, <<"-"," ","x">>>>,
   <<<<" ">> \o LongSuffix, LongSuffix>>,
   <<<<":", " ">> \o LongSuffix, LongSuffix>>}

\* titles that are neither a number nor chapter and a number
PlainTitles == {TitleEssay, LabelNoisy, <<"C","h","a","p","t","e","r"," ","7","t","h">>, <<"C","h","a","p","t","e","r","s"," ","7">>, <<"7"," ","D","a","y","s">>, <<>>}

TitleFallbacks == {<<>>, <<"C","h","a","p","t","e","r"," ","9">>}

RawTitles ==
  TitleNumbers \cup PlainTitles
    \cup {p \o n \o sfx[1] : p \in ChapterPrefixes, n \in TitleNumbers, sfx \in TitleSuffixes}

InitTitle ==
  /\ callPc = "called"
  /\ callee = "normalizeChapterTitle"
  /\ callArgs \in [rawTitle : RawTitles, fallback : TitleFallbacks]
  /\ callResult = <<>>
  /\ NoParse
  /\ NoSplit
  /\ NoClassify
  /\ NoSlugify
  /\ NoConvert

NextTitle == NormalizeChapterTitle

SpecTitle == InitTitle /\ [][NextTitle]_vars

(***************************************************************************)
(* mergeTinySections on its own                                            *)
(***************************************************************************)
MaxSections == 3

\* what follows the heading of a section: paragraphs of 2, 12 and 45 words,
\* and paragraphs with a thematic break before or after them
SectionBodies ==
  {<<Para(2)>>, <<Para(SmallWords)>>, <<Para(45)>>, <<Hr, Para(30)>>, <<Para(2), Hr>>}

\* sections as splitMarkdownByHeading returns them
SectionChoices ==
  {[title |-> t, markdown |-> <<H1(t)>> \o body] :
     t \in {TitlePartA, TitlePartB}, body \in SectionBodies}

InitMerge ==
  /\ callPc = "called"
  /\ callee = "mergeTinySections"
  /\ callArgs \in [sections         : SeqsUpTo(SectionChoices, MaxSections),
                    minSectionWords  : {TinyMinSectionWords, SmallMinSectionWords,
                                        LargeMinSectionWords},
                    maxChapterWords  : {SmallMaxChapterWords}]
  /\ callResult = <<>>
  /\ NoParse
  /\ NoSplit
  /\ NoClassify
  /\ NoSlugify
  /\ NoConvert

NextMerge == MergeTinySections

SpecMerge == InitMerge /\ [][NextMerge]_vars

(***************************************************************************)
(* splitMarkdownByWordCount on its own                                     *)
(***************************************************************************)
TinyMaxChapterWords == 20

\* headings, thematic breaks and paragraphs, the larger ones over
\* floor(1.5 x maxChapterWords) for one or both values of maxChapterWords
ChunkBlocks == {H1(TitlePartA), Hr, Para(SmallWords), Para(25), Para(45), Para(HugeWords)}

InitChunk ==
  /\ callPc = "called"
  /\ callee = "splitMarkdownByWordCount"
  /\ callArgs \in [markdown        : SeqsUpTo(ChunkBlocks, MaxBlocks),
                    maxChapterWords : {TinyMaxChapterWords, SmallMaxChapterWords}]
  /\ callResult = <<>>
  /\ NoParse
  /\ NoSplit
  /\ NoClassify
  /\ NoSlugify
  /\ NoConvert

NextChunk == SplitMarkdownByWordCount

SpecChunk == InitChunk /\ [][NextChunk]_vars

(***************************************************************************)
(* finalizeCleanup on its own                                              *)
(***************************************************************************)
\* what node-html-markdown gives for a heading, a paragraph, an image, a
\* same-document link and a declaration
CleanupBlocks == {H1(TitlePartA), Para(SmallWords), Img, FragLink, Decl}

CleanupOptionSets ==
  {[DEFAULT_PARSE_OPTIONS EXCEPT !.stripImages = i, !.stripInternalLinks = l] :
     i \in BOOLEAN, l \in BOOLEAN}

InitCleanup ==
  /\ callPc = "called"
  /\ callee = "finalizeCleanup"
  /\ callArgs \in [markdown : SeqsUpTo(CleanupBlocks, MaxBlocks), options : CleanupOptionSets]
  /\ callResult = <<>>
  /\ NoParse
  /\ NoSplit
  /\ NoClassify
  /\ NoSlugify
  /\ NoConvert

NextCleanup == FinalizeCleanup

SpecCleanup == InitCleanup /\ [][NextCleanup]_vars

(***************************************************************************)
(* Properties of parseEpubToChapters                                       *)
(***************************************************************************)
\* C1: every chapter of a returned result has a title, a slug and markdown
\* that are not empty, and the indices of the list are 1, 2, ..., n in list
\* order, whatever was filtered out or split on the way.
ReturnedChaptersWellFormed ==
  pc = "returned" =>
    \A i \in 1..Len(returned) :
      /\ returned[i].title # <<>>
      /\ returned[i].slug # <<>>
      /\ returned[i].markdown # <<>>
      /\ returned[i].index = i

\* a result of two or more chapters whose indices had to change: a chapter
\* was dropped or split before the result was numbered
ReindexedAfterDropOrSplit ==
  /\ pc = "returned"
  /\ Len(returned) >= 2
  /\ \E i \in 1..Len(returned) : filteredAndSplit[i].index # i

\* C2: a result is never an empty list; when nothing is left of the
\* candidate chapters the call ends with a CliError and returns nothing.
NeverReturnsEmpty ==
  /\ pc = "returned" => returned # <<>> /\ thrown = NoError
  /\ pc = "thrown" => thrown.name = "CliError" /\ returned = <<>>
  /\ pc \in {"returned", "thrown"} => (pc = "thrown" <=> filteredAndSplit = <<>>)

\* chapters were rendered, all of them were dropped by the classifier, and
\* the call failed
ThrownAfterAllDropped ==
  /\ pc = "thrown"
  /\ thrown.name = "CliError"
  /\ Len(chapters) >= 2

\* the documents of the selected hrefs that the archive holds: when the call
\* throws, each of them is a chapter that was dropped
DroppedSources == {zip[normalizedPathOf(chapterHrefs[i])] : i \in 1..Len(chapterHrefs)} \ {NoEntry}

ImageOnlyThrown == thrown.message = "image-only, OCR is required"

\* C3, as stated: when nothing survives and images are stripped, the
\* image-only error is thrown if the source of any dropped chapter held an
\* image, and the general error only when none did.
ImageOnlyIffAnyDroppedHadImage ==
  pc = "thrown" /\ parseOptions.stripImages =>
    (ImageOnlyThrown <=> \E doc \in DroppedSources : doc.img)

\* C3, amended: when nothing survives and images are stripped, the
\* image-only error is thrown if and only if some document that was dropped
\* because its markdown was empty after cleanup held an image; an image in
\* a chapter that the classifier dropped does not count.
ImageOnlyIffEmptyDroppedHadImage ==
  pc = "thrown" /\ parseOptions.stripImages =>
    (ImageOnlyThrown <=>
       \E doc \in DroppedSources : doc.img /\ finalizeCleanup(doc.blocks, parseOptions) = <<>>)

\* the image-only error after two documents were dropped, one of them empty
\* with an image and the other one not
ImageOnlyAmongDropped ==
  /\ pc = "thrown"
  /\ parseOptions.stripImages
  /\ ImageOnlyThrown
  /\ \E doc \in DroppedSources : ~doc.img
  /\ \E doc \in DroppedSources : doc.img /\ finalizeCleanup(doc.blocks, parseOptions) = <<>>

\* the labels the two tables of contents give the href of a chapter; <<>>
\* where a table has no entry for it
ModernLabel(href) == TocLabel(parseNavEntries(navItems), normalizeHrefKey(href))

LegacyLabel(href) == TocLabel(parseNcxEntries(ncx), normalizeHrefKey(href))

NavTitle == <<"N","a","v"," ","T","i","t","l","e">>

TocRestricted ==
  SelectSeq(spineHrefs,
            LAMBDA href : \E i \in 1..Len(preferredTocEntries) :
                            normalizeHrefKey(preferredTocEntries[i].href) = normalizeHrefKey(href))

\* C5: with entries in the table of contents the selected hrefs are the
\* reading order restricted to the hrefs the table names, in reading order;
\* when that restriction is empty the whole reading order is selected, so
\* that a reading order that is not empty never gives an empty selection.
SelectionFollowsToc ==
  (pc \notin {"open", "opf", "start"} /\ epub = Sound) =>
    /\ preferredTocEntries # <<>> =>
          chapterHrefs = (IF TocRestricted = <<>> THEN spineHrefs ELSE TocRestricted)
    /\ spineHrefs # <<>> => chapterHrefs # <<>>

\* a table of contents that names one of two documents of the reading
\* order, by an href of another case and with a fragment
TocSelectsPartOfSpine ==
  /\ (pc \notin {"open", "opf", "start"} /\ epub = Sound)
  /\ preferredTocEntries # <<>>
  /\ Len(spineHrefs) = 2
  /\ Len(chapterHrefs) = 1
  /\ \E i \in 1..Len(preferredTocEntries) : preferredTocEntries[i].href = HrefAFrag

\* C6, as stated: where the table of contents has entries, a document that
\* has neither a label in the table nor a top-level heading gives no
\* chapter: it is dropped instead of being called "Chapter <position>".
UnlabelledChapterDropped ==
  \A i \in 1..Len(chapters) :
    preferredTocEntries # <<>> =>
      \/ TocLabel(preferredTocEntries, normalizeHrefKey(chapterHrefs[chapters[i].index])) # <<>>
      \/ firstHeading(chapters[i].markdown) # <<>>

\* C10: with filterBoilerplate off the classifier drops nothing, before or
\* after splitting: the chapters left are the rendered chapters, each as
\* itself or as all of its fragments, in order.
NothingFilteredWhenDisabled ==
  pc \in {"filtered", "returned", "thrown"} /\ ~parseOptions.filterBoilerplate =>
    /\ filteredAndSplit = FlatSplit(chapters, parseOptions)
    /\ Len(filteredAndSplit) >= Len(chapters)
    /\ \A i \in 1..Len(chapters) :
          \E j \in 1..Len(filteredAndSplit) :
            /\ filteredAndSplit[j].index = chapters[i].index
            /\ \/ filteredAndSplit[j] = chapters[i]
               \/ filteredAndSplit[j].sourceFile =
                    chapters[i].sourceFile \o PartMarker \o <<"1">>

\* with filterBoilerplate off, a result that holds a chapter the classifier
\* drops when it is on, next to the fragments of a chapter that was split
BoilerplateKeptWhenDisabled ==
  /\ pc = "returned"
  /\ ~parseOptions.filterBoilerplate
  /\ Len(returned) > Len(chapters)
  /\ \E i \in 1..Len(returned) :
       MatchesBoilerplate(returned[i], cleanTitle(returned[i].title))

(***************************************************************************)
(* Properties of splitLargeChapter                                         *)
(***************************************************************************)
SplitReturned == splitPc = "returned"

Oversized == splitChapter.wordCount > splitOptions.maxChapterWords

\* the sections the headings give after merging, and the chunks by words
HeadingPieces ==
  MergedSections(
    FallbackSections(splitMarkdownByHeading(splitChapter.markdown, "h1"), splitChapter.markdown),
    splitOptions)

WordPieces == splitMarkdownByWordCount(splitChapter.markdown, splitOptions.maxChapterWords)

\* C7: splitLargeChapter returns the one chapter it was given, unchanged,
\* when its wordCount is at most maxChapterWords, and also when it is
\* larger but neither the headings nor the word count give two pieces.
SmallOrUnsplittableUnchanged ==
  SplitReturned =>
    /\ ~Oversized => splitResult = <<splitChapter>>
    /\ Oversized /\ Len(HeadingPieces) < 2 /\ Len(WordPieces) < 2 =>
          splitResult = <<splitChapter>>

\* a chapter larger than maxChapterWords that comes back unsplit
OversizedReturnedUnsplit ==
  /\ SplitReturned
  /\ Oversized
  /\ splitResult = <<splitChapter>>

\* the positions of the top-level headings of the chapter, and the n-th
TopHeadings == {i \in 1..Len(splitChapter.markdown) : splitChapter.markdown[i].kind = "h1"}

NthTopHeading(n) ==
  CHOOSE i \in TopHeadings : Cardinality({j \in TopHeadings : j < i}) = n - 1

\* the blocks from the n-th top-level heading to the next one, or to the end
TopSegment(n) ==
  SubSeq(splitChapter.markdown, NthTopHeading(n),
         IF n = Cardinality(TopHeadings)
           THEN Len(splitChapter.markdown)
           ELSE NthTopHeading(n + 1) - 1)

\* C8: a chapter larger than maxChapterWords with k >= 2 top-level
\* headings whose segments all have minSectionWords words or more comes
\* back as k chapters, the n-th being the segment of the n-th heading and
\* titled with the normalized text of that heading; second-level headings
\* in it do not divide it further.
SplitAtEveryTopHeading ==
  SplitReturned /\ Oversized /\ Cardinality(TopHeadings) >= 2
    /\ (\A n \in 1..Cardinality(TopHeadings) :
          chapterWordCount(TopSegment(n)) >= splitOptions.minSectionWords) =>
      /\ Len(splitResult) = Cardinality(TopHeadings)
      /\ \A n \in 1..Len(splitResult) :
            /\ splitResult[n].markdown = TopSegment(n)
            /\ splitResult[n].title =
                 normalizeChapterTitle(splitChapter.markdown[NthTopHeading(n)].text,
                                       splitChapter.title \o PartWord \o Decimal(n))
            /\ splitChapter.markdown[NthTopHeading(n)].text \in {TitlePartA, TitlePartB} =>
                 splitResult[n].title = splitChapter.markdown[NthTopHeading(n)].text

\* "Part A" and "Part B" in that order, each with its paragraph, the first
\* part with a second-level heading inside
SplitIntoPartAPartB ==
  /\ SplitReturned
  /\ Oversized
  /\ \A n \in 1..Cardinality(TopHeadings) :
       chapterWordCount(TopSegment(n)) >= splitOptions.minSectionWords
  /\ Len(splitResult) = 2
  /\ splitResult[1].title = TitlePartA
  /\ splitResult[2].title = TitlePartB
  /\ \E i \in 1..Len(splitResult[1].markdown) : splitResult[1].markdown[i].kind = "h2"

\* C9: when the headings give no two sections and the word count gives
\* m >= 2 chunks, the result is the m chunks in order, the n-th titled
\* "<title of the chapter> Part <n>"; and the n-th chapter of every split,
\* by headings or by words, has the sourceFile of the chapter followed by
\* "#part-<n>".
PartsNumberedFromOne ==
  SplitReturned =>
    /\ Oversized /\ Len(HeadingPieces) < 2 /\ Len(WordPieces) >= 2 =>
          /\ Len(splitResult) = Len(WordPieces)
          /\ \A n \in 1..Len(splitResult) :
                /\ splitResult[n].markdown = WordPieces[n]
                /\ splitResult[n].title = splitChapter.title \o <<" ","P","a","r","t"," ">> \o Decimal(n)
    /\ splitResult # <<splitChapter>> =>
          \A n \in 1..Len(splitResult) :
            splitResult[n].sourceFile =
              splitChapter.sourceFile \o <<"#","p","a","r","t","-">> \o Decimal(n)

\* three chunks by words, the first titled "Chapter One Part 1"
ThreeWordChunks ==
  /\ SplitReturned
  /\ Len(HeadingPieces) < 2
  /\ Len(splitResult) = 3
  /\ splitResult[1].title = LabelOne \o <<" ","P","a","r","t"," ","1">>
  /\ splitResult[3].sourceFile = splitChapter.sourceFile \o <<"#","p","a","r","t","-","3">>

\* the chapter was split at its headings
HeadingSplit == SplitReturned /\ Oversized /\ Len(HeadingPieces) >= 2

\* the conditions under which a heading is said to be rejected
HeadingRejected(heading) ==
  \/ Len(heading) > 95
  \/ CountWords(heading) > 15
  \/ CountWords(heading) > 8 /\ HasSentenceBreak(heading)
  \/ CountWords(heading) > 12 /\ PunctuationCount(heading) >= 2

\* the heading is a number, or chapter and a number
NumberedHeading(heading) ==
  \/ heading # <<>> /\ \A i \in 1..Len(heading) : heading[i] \in Digit
  \/ ChapterNumberSpan(heading)[1] # 0

\* "<parent title> Part <n>"
ParentPart(n) == splitChapter.title \o <<" ","P","a","r","t"," ">> \o Decimal(n)

\* the n-th fragment of a split by headings is titled with its own heading
\* unless the heading is over 95 characters, over 15 words, over 8 words
\* with a sentence break or over 12 words with two or more of , ; : and
\* then "<parent title> Part <n>"
PartTitleIffHeadingRejected ==
  HeadingSplit =>
    /\ Len(splitResult) = Len(HeadingPieces)
    /\ \A n \in 1..Len(splitResult) :
          splitResult[n].title =
            IF HeadingRejected(HeadingPieces[n].title) THEN ParentPart(n)
            ELSE HeadingPieces[n].title

\* C22: the n-th fragment of a split by headings is titled, each fragment
\* for itself, with its own heading when normalization accepts it, and then
\* in the form "Chapter N" or "Chapter N: suffix" when the heading is a number
\* or chapter and a number, whatever its length; and it is titled exactly
\* "<parent title> Part <n>" when the heading is none of these forms and is
\* over 95 characters, over 15 words, over 8 words with a sentence break, or
\* over 12 words with two or more of , ; :
PartTitleIffPlainHeadingRejected ==
  HeadingSplit =>
    /\ Len(splitResult) = Len(HeadingPieces)
    /\ \A n \in 1..Len(splitResult) :
          LET heading == HeadingPieces[n].title
              title   == splitResult[n].title
          IN  /\ NumberedHeading(heading) =>
                    /\ Len(title) > 8 /\ SubSeq(title, 1, 8) = <<"C","h","a","p","t","e","r"," ">>
                    /\ title # ParentPart(n)
              /\ heading = TitleLongChapter => title = <<"C","h","a","p","t","e","r"," ","7",":"," ">> \o ManyWords
              /\ ~NumberedHeading(heading) /\ HeadingRejected(heading) =>
                    title = ParentPart(n)
              /\ ~NumberedHeading(heading) /\ ~HeadingRejected(heading) =>
                    title = heading

\* a long numbered heading kept in its chapter form, then a noisy heading
\* replaced by "Chapter One Part 2", then a clean heading kept
NumberedKeptNoisyReplaced ==
  /\ HeadingSplit
  /\ Len(splitResult) = 3
  /\ HeadingPieces[1].title = TitleLongChapter
  /\ HeadingPieces[2].title = LabelNoisy
  /\ splitResult[1].title = <<"C","h","a","p","t","e","r"," ","7",":"," ">> \o ManyWords
  /\ splitResult[2].title = LabelOne \o <<" ","P","a","r","t"," ","2">>
  /\ splitResult[3].title = TitlePartA

\* the chapter came back as two chapters or more
WasSplit == SplitReturned /\ Len(splitResult) >= 2

\* the blocks of the chapters of the result one after the other
ResultMarkdown == Concat([n \in 1..Len(splitResult) |-> splitResult[n].markdown])

RECURSIVE ResultWordCount(_)
ResultWordCount(n) ==
  IF n = 0 THEN 0 ELSE splitResult[n].wordCount + ResultWordCount(n - 1)

\* C25: when splitLargeChapter splits a chapter, by headings or by words,
\* the markdown of the fragments in order has every word of the markdown of
\* the chapter (every block of it, when it was split by headings) and the
\* word counts of the fragments add up to the word count of the chapter,
\* also when the markdown has text before its first heading
SplitKeepsEveryWord ==
  WasSplit =>
    /\ SumWords(ResultMarkdown) = SumWords(splitChapter.markdown)
    /\ Len(HeadingPieces) >= 2 => ResultMarkdown = splitChapter.markdown
    /\ ResultWordCount(Len(splitResult)) = splitChapter.wordCount

\* the level of the headings the chapter is split at: the second when there
\* are no two headings of the first
SplitLevel == IF Cardinality(TopHeadings) >= 2 THEN "h1" ELSE "h2"

\* the same of the chapters that begin with a heading they are split at or
\* are split by words, and have no two thematic breaks
SplitKeepsEveryWordAfterHeading ==
  /\ splitChapter.markdown[1].kind = SplitLevel \/ Len(HeadingPieces) < 2
  /\ Cardinality({i \in 1..Len(splitChapter.markdown) :
                    splitChapter.markdown[i].kind = "hr"}) < 2
  => SplitKeepsEveryWord

\* a chapter of a paragraph and two headed sections comes back as the two
\* sections
TextBeforeFirstHeadingDropped ==
  /\ WasSplit
  /\ splitChapter.markdown[1].kind = "p"
  /\ Len(splitResult) = 2
  /\ splitResult[1].markdown[1].kind = "h1"
  /\ ResultWordCount(2) = splitChapter.wordCount - splitChapter.markdown[1].words

\* the navPoints of the legacy map at both depths of the maps of this model
AllNavPoints ==
  {ncx[i] : i \in 1..Len(ncx)}
    \cup UNION {{ncx[i].children[j] : j \in 1..Len(ncx[i].children)} : i \in 1..Len(ncx)}

\* the table of contents was resolved from the legacy map
ResolvedFromNcx ==
  /\ pc \notin {"open", "opf", "start"}
  /\ epub = Sound
  /\ parseNavEntries(navItems) = <<>>

\* C27: when the legacy map gives the table of contents, every navPoint of
\* it, at any depth, that has a target and a label that is not empty has
\* its href in the set of the table, and a document of the reading order
\* that it names is selected
NestedNavPointsInToc ==
  ResolvedFromNcx =>
    \A node \in AllNavPoints :
      node.strings /\ Trim(node.text) # <<>> =>
        /\ normalizeHrefKey(node.src) \in preferredHrefSet
        /\ \A i \in 1..Len(spineHrefs) :
              normalizeHrefKey(spineHrefs[i]) = normalizeHrefKey(node.src) =>
                \E k \in 1..Len(chapterHrefs) : chapterHrefs[k] = spineHrefs[i]

\* the same of the navPoints at the top of the map
TopNavPointsInToc ==
  ResolvedFromNcx =>
    \A n \in 1..Len(ncx) :
      ncx[n].strings /\ Trim(ncx[n].text) # <<>> =>
        /\ normalizeHrefKey(ncx[n].src) \in preferredHrefSet
        /\ \A i \in 1..Len(spineHrefs) :
              normalizeHrefKey(spineHrefs[i]) = normalizeHrefKey(ncx[n].src) =>
                \E k \in 1..Len(chapterHrefs) : chapterHrefs[k] = spineHrefs[i]

\* a document that only a nested navPoint names is left out of the selection
NestedDocumentNotSelected ==
  /\ ResolvedFromNcx
  /\ spineHrefs = <<HrefA, HrefDotB>>
  /\ \E i \in 1..Len(ncx) : \E j \in 1..Len(ncx[i].children) :
        normalizeHrefKey(ncx[i].children[j].src) = normalizeHrefKey(HrefDotB)
  /\ chapterHrefs = <<HrefA>>

\* C30: a chapter of more than maxChapterWords words whose markdown has two
\* blocks or more, the word counts of which add up to the word count of the
\* chapter, comes back from splitLargeChapter as two chapters or more; a
\* chapter of more than maxChapterWords words comes back unsplit only when
\* its markdown is one block of at most floor(1.5 x maxChapterWords) words
OversizedDividedWhenDivisible ==
  SplitReturned /\ Oversized =>
    /\ Len(splitChapter.markdown) >= 2
          /\ SumWords(splitChapter.markdown) = splitChapter.wordCount
        => Len(splitResult) >= 2
    /\ splitResult = <<splitChapter>> =>
          /\ Len(splitChapter.markdown) = 1
          /\ BlockWords(splitChapter.markdown[1]) <= (3 * splitOptions.maxChapterWords) \div 2

\* paragraphs of 12 and 45 words, 57 together, come back as two chapters
TwoParagraphsDivided ==
  /\ SplitReturned
  /\ splitChapter.markdown = <<Para(SmallWords), Para(45)>>
  /\ splitChapter.wordCount = SmallWords + 45
  /\ Len(splitResult) = 2
  /\ splitResult[1].markdown = <<Para(SmallWords)>>
  /\ splitResult[2].markdown = <<Para(45)>>

\* a is b with some of its elements removed
RECURSIVE IsSubsequence(_, _)
IsSubsequence(a, b) ==
  IF a = <<>> THEN TRUE
  ELSE IF b = <<>> THEN FALSE
  ELSE IF Head(a) = Head(b) THEN IsSubsequence(Tail(a), Tail(b))
  ELSE IsSubsequence(a, Tail(b))

\* the document at the position of the selected reading order that chapter
\* number i of filteredAndSplit was rendered from
SourceOf(i) == normalizedPathOf(chapterHrefs[filteredAndSplit[i].index])

\* chapters i and j of filteredAndSplit are parts n < m of the same document
PartsInOrder(i, j) ==
  \E n, m \in 1..Len(FlatSplit(chapters, parseOptions)) :
    /\ n < m
    /\ filteredAndSplit[i].sourceFile = SourceOf(i) \o PartMarker \o Decimal(n)
    /\ filteredAndSplit[j].sourceFile = SourceOf(i) \o PartMarker \o Decimal(m)

\* C14: the heuristics never change the order of the output: an earlier
\* output chapter comes from an earlier or the same position of the selected
\* reading order, the fragments of one parent are consecutive with strictly
\* increasing part numbers, and filtering only removes chapters
OrderPreserved ==
  pc \in {"filtered", "returned"} =>
    /\ \A i \in 1..Len(filteredAndSplit) :
         /\ filteredAndSplit[i].index \in 1..Len(chapterHrefs)
         /\ \/ filteredAndSplit[i].sourceFile = SourceOf(i)
            \/ \E n \in 1..Len(FlatSplit(chapters, parseOptions)) :
                 filteredAndSplit[i].sourceFile = SourceOf(i) \o PartMarker \o Decimal(n)
    /\ \A i, j \in 1..Len(filteredAndSplit) :
         i < j =>
           /\ filteredAndSplit[i].index <= filteredAndSplit[j].index
           /\ filteredAndSplit[i].index = filteredAndSplit[j].index => PartsInOrder(i, j)
    /\ IsSubsequence(filteredAndSplit, FlatSplit(chapters, parseOptions))
    /\ pc = "returned" =>
         /\ Len(returned) = Len(filteredAndSplit)
         /\ \A i \in 1..Len(returned) :
              returned[i] = [filteredAndSplit[i] EXCEPT !.index = i]

\* the two parts of the first document followed by the chapter of the second
PartsThenNextChapter ==
  /\ pc = "returned"
  /\ Len(returned) = 3
  /\ filteredAndSplit[1].index = 1
  /\ filteredAndSplit[2].index = 1
  /\ filteredAndSplit[3].index = 2
  /\ PartsInOrder(1, 2)
  /\ returned[3].sourceFile = normalizedPathOf(chapterHrefs[2])

\* normalization rejects the candidate: it returns what it was given to fall back on
Rejected(candidate) == candidate # <<>> /\ normalizeChapterTitle(candidate, <<>>) = <<>>

\* the label the table of contents gives rendered chapter number i
LabelOf(i) ==
  TocLabel(preferredTocEntries, normalizeHrefKey(chapterHrefs[chapters[i].index]))

\* C20: when normalization rejects the table-of-contents label of a rendered
\* chapter and the chapter's first top-level heading exists and is
\* acceptable, the chapter is titled by that heading, not by the fallback
RejectedLabelFallsThroughToHeading ==
  \A i \in 1..Len(chapters) :
    LET heading == firstHeading(chapters[i].markdown)
    IN  (/\ Rejected(LabelOf(i))
         /\ heading # <<>>
         /\ ~Rejected(heading))
          => chapters[i].title = normalizeChapterTitle(heading, <<>>)

\* the archive is malformed: one of the four structural tests fails
Malformed == epub.container # "path" \/ epub.opf # "package"

\* C16: a missing META-INF/container.xml, a container that yields no string
\* full-path, a missing OPF file and an OPF file without a package root each
\* end the call with a CliError of exit code 4 before the table of contents
\* is resolved or a chapter is rendered, and nothing is returned
StructuralFailureAborts ==
  /\ (Malformed /\ pc # "open" /\ (epub.container = "path" => pc # "opf")) =>
       /\ pc = "thrown"
       /\ thrown.name = "CliError"
       /\ thrown.code = 4
       /\ index = 0
       /\ chapters = <<>>
       /\ chapterHrefs = <<>>
       /\ filteredAndSplit = <<>>
       /\ returned = <<>>
  /\ (Malformed /\ pc \in {"open", "opf"}) => thrown = NoError /\ returned = <<>>

\* the last of the four tests failed: the OPF file has no package root
ThrownForMissingPackage ==
  /\ pc = "thrown"
  /\ epub = [container |-> "path", opf |-> "noPackage"]
  /\ \E p \in Paths : zip[p] = DocEssay
  /\ thrown.code = 4
  /\ chapters = <<>>

\* the errors of the three kinds, as the throw statements build them
MalformedFailures ==
  {CliError("EPUB is missing META-INF/container.xml", 4),
   CliError("Could not resolve OPF path", 4),
   CliError("OPF file not found", 4),
   CliError("Invalid OPF package file", 4)}

NoContentFailure == CliError("no chapter content", 4)

ImageOnlyFailure == CliError("image-only, OCR is required", 4)

Failures == MalformedFailures \cup {NoContentFailure, ImageOnlyFailure}

FailureKind(error) ==
  IF error \in MalformedFailures THEN "malformed input"
  ELSE IF error = NoContentFailure THEN "no content"
  ELSE IF error = ImageOnlyFailure THEN "image-only"
  ELSE "other"

\* C17, as stated: the category of the error that is thrown differs from the
\* category of every failure of another kind
CategoryTellsKind ==
  pc = "thrown" =>
    \A other \in Failures :
      FailureKind(other) # FailureKind(thrown) => other.code # thrown.code

\* C17, amended: the error is a CliError with a message and an exit code; the
\* message tells the three kinds apart (malformed input, no content, image
\* only), the exit code does not: it is 4 for all three
MessageTellsKindCodeIsFour ==
  pc = "thrown" =>
    /\ thrown.name = "CliError"
    /\ thrown \in Failures
    /\ thrown.code = 4
    /\ FailureKind(thrown) =
         (IF Malformed THEN "malformed input"
          ELSE IF sawImageOnlyContent THEN "image-only"
          ELSE "no content")

\* an image-only failure with the exit code that malformed archives get
ImageOnlyWithParseCode ==
  /\ pc = "thrown"
  /\ ~Malformed
  /\ FailureKind(thrown) = "image-only"
  /\ \E other \in MalformedFailures : other.code = thrown.code

(***************************************************************************)
(* Properties of normalizeChapterTitle                                     *)
(***************************************************************************)
TitleReturned == callPc = "returned" /\ callee = "normalizeChapterTitle"

\* "Chapter N", or "Chapter N: suffix" when a suffix is left
Canonical(number, suffix) ==
  IF suffix = <<>> THEN <<"C","h","a","p","t","e","r"," ">> \o number
  ELSE <<"C","h","a","p","t","e","r"," ">> \o number \o <<":"," ">> \o suffix

\* C21: a candidate of digits N becomes "Chapter N"; chapter N in any letter
\* case becomes "Chapter N" when nothing follows the number and
\* "Chapter N: suffix" when text follows, one leading colon, period or dash
\* of the suffix removed; no such candidate gives the fallback, however long
\* the suffix is
NumberedTitlesCanonical ==
  TitleReturned =>
    /\ \A n \in TitleNumbers :
         callArgs.rawTitle = n => callResult = Canonical(n, <<>>)
    /\ \A p \in ChapterPrefixes, n \in TitleNumbers, sfx \in TitleSuffixes :
         callArgs.rawTitle = p \o n \o sfx[1] => callResult = Canonical(n, sfx[2])

\* chapter 12 followed by 26 words is not rejected for its length
LongSuffixKept ==
  /\ TitleReturned
  /\ callArgs.rawTitle = <<"c","h","a","p","t","e","r"," ","1","2"," ">> \o LongSuffix
  /\ Len(LongSuffix) > 95
  /\ CountWords(LongSuffix) > 15
  /\ callResult = <<"C","h","a","p","t","e","r"," ","1","2",":"," ">> \o LongSuffix

(***************************************************************************)
(* Properties of mergeTinySections                                         *)
(***************************************************************************)
MergeReturned == callPc = "returned" /\ callee = "mergeTinySections"

\* the markdown of the sections one after the other
MarkdownOf(sections) ==
  Concat([i \in 1..Len(sections) |-> sections[i].markdown])

\* the sum of the word counts of the sections
RECURSIVE TotalWords(_)
TotalWords(sections) ==
  IF sections = <<>> THEN 0
  ELSE chapterWordCount(Head(sections).markdown) + TotalWords(Tail(sections))

\* section i is undersized and would fit into one section with section j
Mergeable(sections, i, j) ==
  /\ chapterWordCount(sections[i].markdown) < callArgs.minSectionWords
  /\ 4 * (chapterWordCount(sections[i].markdown) + chapterWordCount(sections[j].markdown))
        <= 5 * callArgs.maxChapterWords

\* the section is made of two sections or more
IsMerged(section) ==
  Cardinality({i \in 1..Len(section.markdown) : section.markdown[i].kind = "h1"}) >= 2

\* C23: in the result of mergeTinySections no section after the first is
\* undersized and fits with the one before it, the first is not undersized
\* and fitting with the second, no merged section has more than
\* 1.25 x maxChapterWords words, the markdown is in its order and the sum
\* of the word counts is the sum of the word counts of the sections given
MergedToFixpoint ==
  MergeReturned =>
    /\ \A i \in 2..Len(callResult) : ~Mergeable(callResult, i, i - 1)
    /\ Len(callResult) > 1 => ~Mergeable(callResult, 1, 2)
    /\ \A i \in 1..Len(callResult) :
          IsMerged(callResult[i]) =>
            4 * chapterWordCount(callResult[i].markdown) <= 5 * callArgs.maxChapterWords
    /\ MarkdownOf(callResult) = MarkdownOf(callArgs.sections)
    /\ TotalWords(callResult) = TotalWords(callArgs.sections)

\* the same of sections without a thematic break
MergedToFixpointWithoutBreaks ==
  (\A i \in 1..Len(callArgs.sections) :
     \A k \in 1..Len(callArgs.sections[i].markdown) :
       callArgs.sections[i].markdown[k].kind # "hr") => MergedToFixpoint

\* the words of the sections are counted and the words of the result are
\* fewer
WordsLostByMerging ==
  /\ MergeReturned
  /\ TotalWords(callResult) < TotalWords(callArgs.sections)

\* a section of the result that is undersized and fits with the one before
UndersizedAfterMerging ==
  /\ MergeReturned
  /\ \E i \in 2..Len(callResult) : Mergeable(callResult, i, i - 1)

(***************************************************************************)
(* Properties of splitMarkdownByWordCount                                  *)
(***************************************************************************)
ChunksReturned == callPc = "returned" /\ callee = "splitMarkdownByWordCount"

\* the blocks of the markdown with more than floor(1.5 x maxChapterWords) words
OversizedBlocks ==
  {i \in 1..Len(callArgs.markdown) :
     BlockWords(callArgs.markdown[i]) > (3 * callArgs.maxChapterWords) \div 2}

\* the chunks that are no block of the markdown: pieces of an oversized block
PieceChunks ==
  {k \in 1..Len(callResult) :
     /\ Len(callResult[k]) = 1
     /\ \A i \in 1..Len(callArgs.markdown) : callArgs.markdown[i] # callResult[k][1]}

\* ceil(a / b)
CeilDiv(a, b) == (a + b - 1) \div b

RECURSIVE SumOver(_, _)
SumOver(S, f) ==
  IF S = {} THEN 0
  ELSE LET x == CHOOSE y \in S : TRUE IN f[x] + SumOver(S \ {x}, f)

\* C24: every chunk of splitMarkdownByWordCount has at most
\* floor(1.5 x maxChapterWords) words; a chunk of two blocks or more has at
\* most maxChapterWords words; the pieces of a block of more than
\* floor(1.5 x maxChapterWords) words have at most maxChapterWords words
\* each, add up to the block, and all but the last of each block have
\* exactly maxChapterWords words
ChunksWithinLimits ==
  ChunksReturned =>
    /\ \A k \in 1..Len(callResult) :
          /\ SumWords(callResult[k]) <= (3 * callArgs.maxChapterWords) \div 2
          /\ chapterWordCount(callResult[k]) <= SumWords(callResult[k])
          /\ Len(callResult[k]) >= 2 => SumWords(callResult[k]) <= callArgs.maxChapterWords
    /\ \A k \in PieceChunks : SumWords(callResult[k]) <= callArgs.maxChapterWords
    /\ Cardinality(PieceChunks) =
          SumOver(OversizedBlocks,
                  [i \in OversizedBlocks |->
                     CeilDiv(BlockWords(callArgs.markdown[i]), callArgs.maxChapterWords)])
    /\ SumOver(PieceChunks, [k \in PieceChunks |-> SumWords(callResult[k])]) =
          SumOver(OversizedBlocks, [i \in OversizedBlocks |-> BlockWords(callArgs.markdown[i])])
    /\ Cardinality({k \in PieceChunks : SumWords(callResult[k]) < callArgs.maxChapterWords})
          <= Cardinality(OversizedBlocks)
    /\ \A k \in PieceChunks :
          SumWords(callResult[k]) < callArgs.maxChapterWords =>
            k = Len(callResult) \/ k + 1 \notin PieceChunks
              \/ SumWords(callResult[k + 1]) = callArgs.maxChapterWords

\* a paragraph of 70 words cut into 20, 20, 20 and 10 words after a chunk of
\* two blocks
HardSplitAfterChunkOfTwo ==
  /\ ChunksReturned
  /\ callArgs.maxChapterWords = TinyMaxChapterWords
  /\ Len(callResult) = 5
  /\ Len(callResult[1]) = 2
  /\ \A k \in 2..4 : SumWords(callResult[k]) = TinyMaxChapterWords
  /\ SumWords(callResult[5]) = HugeWords - 3 * TinyMaxChapterWords

(***************************************************************************)
(* Properties of finalizeCleanup                                           *)
(***************************************************************************)
CleanupReturned == callPc = "returned" /\ callee = "finalizeCleanup"

\* the blocks of md that are not a same-document link
RECURSIVE WithoutFragmentLinks(_)
WithoutFragmentLinks(md) ==
  IF md = <<>> THEN <<>>
  ELSE IF Head(md).kind = "fl" THEN WithoutFragmentLinks(Tail(md))
  ELSE <<Head(md)>> \o WithoutFragmentLinks(Tail(md))

FragmentLinksRemovedWhenNotStripping ==
  ~callArgs.options.stripInternalLinks =>
    (CleanupReturned =>
       callResult = finalizeCleanup(WithoutFragmentLinks(callArgs.markdown), callArgs.options))

\* with stripInternalLinks on, the label of a same-document link is left as
\* a paragraph of one word
LabelLeftWhenStripping ==
  /\ CleanupReturned
  /\ callArgs.options.stripInternalLinks
  /\ callArgs.markdown = <<H1(TitlePartA), FragLink>>
  /\ callResult = <<H1(TitlePartA), Para(1)>>

(***************************************************************************)
(* Properties of slugify                                                   *)
(***************************************************************************)
\* C15: slugify is idempotent, slugify(slugify(x)) = slugify(x), also when x
\* is cut at 60 characters and when it reduces to "chapter"; and
\* slugify(" Chapter: One! ") = "chapter-one"
SlugifyIdempotent ==
  /\ slugPc = "twice" => slugTwice = slugOnce
  /\ (slugPc \in {"once", "twice"} /\ slugValue = <<" ","C","h","a","p","t","e","r",":"," ","O","n","e","!"," ">>)
       => slugOnce = <<"c","h","a","p","t","e","r","-","o","n","e">>

\* a value of more than 60 characters that was cut at 60, slugified twice
CutSlugSlugifiedTwice ==
  /\ slugPc = "twice"
  /\ Len(slugValue) > 60
  /\ Len(slugOnce) = 60
  /\ slugOnce # SubSeq(slugValue, 1, 60)
  /\ slugTwice = slugOnce

(***************************************************************************)
(* Properties of isBoilerplateChapter                                      *)
(***************************************************************************)
Classified == classifyPc = "returned"

ClassifiedTitle == ToLowerCase(Trim(cleanTitle(classifyChapter.title)))

ExactBoilerplateTitles ==
  {<<"c","o","v","e","r">>, <<"t","i","t","l","e"," ","p","a","g","e">>, <<"c","o","n","t","e","n","t","s">>, <<"t","a","b","l","e"," ","o","f"," ","c","o","n","t","e","n","t","s">>, <<"a","b","o","u","t"," ","t","h","e"," ","a","u","t","h","o","r">>,
   <<"b","y"," ","t","h","e"," ","s","a","m","e"," ","a","u","t","h","o","r">>, <<"c","o","p","y","r","i","g","h","t"," ","p","a","g","e">>, <<"n","o","t","e","s">>, <<"e","n","d","n","o","t","e","s">>, <<"b","i","b","l","i","o","g","r","a","p","h","y">>,
   <<"r","e","f","e","r","e","n","c","e","s">>}

\* C11: with filterBoilerplate enabled, a chapter whose normalized title is,
\* ignoring case and the blanks around it, one of cover, title page, contents,
\* table of contents, about the author, by the same author, copyright page,
\* notes, endnotes, bibliography, references is classified as boilerplate,
\* whatever its word count and its content
HardTitleExcluded ==
  (/\ Classified
   /\ classifyOptions.filterBoilerplate
   /\ ClassifiedTitle \in ExactBoilerplateTitles)
    => classifyResult = TRUE

\* a chapter titled ENDNOTES of more than 4000 plain words is classified as boilerplate
LongEndnotesExcluded ==
  /\ Classified
  /\ classifyOptions.filterBoilerplate
  /\ classifyChapter.title = <<"E","N","D","N","O","T","E","S">>
  /\ classifyChapter.markdown = <<Para(LongWords)>>
  /\ classifyChapter.wordCount > LegalMaxWords
  /\ classifyResult = TRUE

\* the normalized title has the word index or the word glossary, in any letter case
HasKeepWord ==
  \E w \in {<<"i","n","d","e","x">>, <<"g","l","o","s","s","a","r","y">>} :
    HasWholeWord(ToLowerCase(cleanTitle(classifyChapter.title)), w)

\* C12: a chapter whose normalized title contains index or glossary as a
\* whole word, in any letter case, is never classified as boilerplate
IndexAndGlossaryKept ==
  (Classified /\ HasKeepWord) => classifyResult = FALSE

\* a chapter titled INDEX with a legal phrase and note-dense lines is kept
\* although the back-matter rule, the legal rule and the density rule match it
IndexKeptAgainstThreeRules ==
  /\ Classified
  /\ classifyOptions.filterBoilerplate
  /\ classifyChapter.title = <<"I","N","D","E","X">>
  /\ ClassifiedTitle \in BackMatterTitles
  /\ LegalInSample(classifyChapter.markdown)
  /\ classifyChapter.wordCount <= LegalMaxWords
  /\ isLikelyNoteDenseMarkdown(classifyChapter.markdown)
  /\ classifyResult = FALSE

\* the title or the first 2500 characters of the markdown have a legal phrase
LegalMatch ==
  \/ \E ph \in LegalPhrases :
       OccurrenceEnds(ToLowerCase(cleanTitle(classifyChapter.title)), ph) # {}
  \/ LegalInSample(classifyChapter.markdown)

\* one of the hard rules matches: an exact title or note-dense markdown
HardMatch ==
  \/ ClassifiedTitle \in ExactBoilerplateTitles \cup {<<"i","n","d","e","x">>}
  \/ isLikelyNoteDenseMarkdown(classifyChapter.markdown)

\* C13: of the chapters that match no hard rule (and are not kept for the word
\* index or glossary), one that matches the legal vocabulary in its title or
\* its first 2500 characters is classified as boilerplate when it has at most
\* 4000 words and kept when it has more; one without a legal match is kept
LegalRuleOnlyUpTo4000Words ==
  (/\ Classified
   /\ classifyOptions.filterBoilerplate
   /\ ~HasKeepWord
   /\ ~HardMatch)
    => (classifyResult = TRUE <=> (LegalMatch /\ classifyChapter.wordCount <= 4000))

\* a chapter of 4001 words with the word copyright in its first line is kept
LongLegalChapterKept ==
  /\ Classified
  /\ classifyOptions.filterBoilerplate
  /\ classifyChapter.title = TitleEssay
  /\ classifyChapter.markdown = <<LegalPara(LongWords, 2)>>
  /\ LegalMatch
  /\ classifyChapter.wordCount > 4000
  /\ classifyResult = FALSE

(***************************************************************************)
(* Properties of the two classification passes                             *)
(***************************************************************************)
\* the statement that filters, splits and filters has been executed
PassesDone == pc \in {"filtered", "returned", "thrown"} /\ epub = Sound

\* the rendered chapters of more than 4000 words that match the legal rule in
\* their first 2500 characters and no hard rule
LongLegalChapters ==
  {i \in 1..Len(chapters) :
     /\ chapters[i].wordCount > 4000
     /\ LegalInSample(chapters[i].markdown)
     /\ ToLowerCase(Trim(cleanTitle(chapters[i].title)))
          \notin ExactBoilerplateTitles \cup {<<"i","n","d","e","x">>}
     /\ ~isLikelyNoteDenseMarkdown(chapters[i].markdown)}

\* what is left of rendered chapter i after the passes: a split keeps the
\* index of the chapter in its fragments
FragmentsOf(i) == SelectSeq(filteredAndSplit, LAMBDA f : f.index = chapters[i].index)

\* with filterBoilerplate on, a chapter of more than 4000 words that matches
\* the legal rule and no hard rule has all its words in the output,
\* whatever maxChapterWords is and also when it is split
LongLegalChapterKeepsEveryWord ==
  PassesDone /\ parseOptions.filterBoilerplate =>
    \A i \in LongLegalChapters : TotalWords(FragmentsOf(i)) = chapters[i].wordCount

\* C28: with filterBoilerplate on, a chapter of more than 4000 words that
\* matches the legal rule and no hard rule passes the first classification
\* whatever maxChapterWords is, and has all its words in the output when it
\* is not split; when it is split, the second classification judges every
\* fragment by itself and removes, with all its words, a fragment of at most
\* 4000 words that matches the legal rule, and no other fragment
LongLegalChapterPassesFirstClassification ==
  PassesDone /\ parseOptions.filterBoilerplate =>
    \A i \in LongLegalChapters :
      /\ chapters[i].wordCount <= parseOptions.maxChapterWords =>
            FragmentsOf(i) = <<chapters[i]>>
      /\ FragmentsOf(i) =
           SelectSeq(splitLargeChapter(chapters[i], parseOptions),
                     LAMBDA f : ~(f.wordCount <= 4000 /\ LegalInSample(f.markdown)))

\* the essay of 4004 words split into its heading and pieces of 2000, 2000
\* and 1 words; the piece with the word copyright is removed
LegalFragmentOfLongChapterRemoved ==
  /\ PassesDone
  /\ parseOptions.filterBoilerplate
  /\ parseOptions.maxChapterWords = MidMaxChapterWords
  /\ \E i \in LongLegalChapters :
        /\ Len(splitLargeChapter(chapters[i], parseOptions)) = 4
        /\ Len(FragmentsOf(i)) = 3
        /\ TotalWords(FragmentsOf(i)) = chapters[i].wordCount - MidMaxChapterWords

\* the chapters without their index
WithoutIndex(list) == Tuple([i \in 1..Len(list) |-> [list[i] EXCEPT !.index = 0]])

\* the options with filterBoilerplate off
Unfiltering == [parseOptions EXCEPT !.filterBoilerplate = FALSE]

\* what the same archive gives under the same options with filterBoilerplate
\* off: rendering does not read the option
UnfilteredOutput ==
  KeepContent(FlatSplit(KeepContent(chapters, Unfiltering), Unfiltering), Unfiltering)

\* C29: when a run with filterBoilerplate on returns, its chapters are,
\* apart from their index, chapters of the run with filterBoilerplate off on
\* the same archive and the same other options, in the same order, each with
\* the same title, slug, sourceFile, markdown and wordCount
FilteringOnlyRemovesChapters ==
  pc = "returned" /\ parseOptions.filterBoilerplate =>
    IsSubsequence(WithoutIndex(returned), WithoutIndex(UnfilteredOutput))

\* one of two chapters is removed by the filter and the other is returned
OneOfTwoChaptersFiltered ==
  /\ pc = "returned"
  /\ parseOptions.filterBoilerplate
  /\ Len(UnfilteredOutput) = 2
  /\ Len(returned) = 1
  /\ returned[1].sourceFile = UnfilteredOutput[2].sourceFile

(***************************************************************************)
(* Properties of convertBook                                               *)
(***************************************************************************)
\* convertBook has returned or has rejected
Exited == convPc \in {"returned", "threw"}

\* the directory that was at outDir when convertBook was called is still there
Untouched == outDir \in OutDirs \ {"absent"} /\ convLog.removed = "nothing"

\* C18: an existing output directory is removed only if overwrite was
\* requested, and one that does not look like a skill only after the answer
\* at the interactive prompt started with y; without overwrite writeSkill
\* fails with exit code 5 and leaves the directory as it was; with overwrite
\* and no terminal convertBook fails with exit code 2 before writeSkill runs
OutDirRemovedOnlyOnRequest ==
  /\ convLog.removed # "nothing" => convOptions.overwrite /\ convLog.writeSkill
  /\ convLog.removed = "other" =>
       convEnv.isTTY /\ convLog.confirmed /\ StartsWithY(convEnv.answer)
  /\ (~convOptions.overwrite /\ convLog.writeSkill /\ outDir \in OutDirs \ {"absent"}) =>
       /\ Untouched
       /\ convError.code = 5
       /\ convPc \in {"catch", "finally", "threw"}
  /\ (convOptions.overwrite /\ ~convEnv.isTTY /\ outDir = "other") =>
       /\ ~convLog.writeSkill
       /\ convPc \notin {"write", "returned"}
       /\ (convPc = "threw" /\ convEnv.fails \in {"nothing", "write"}) => convError.code = 2

\* overwrite of a directory that is not a skill, asked for without a
\* terminal: rejected with exit code 2, writeSkill not called, directory kept
RefusedWithoutTerminal ==
  /\ convPc = "threw"
  /\ convOptions.overwrite
  /\ ~convEnv.isTTY
  /\ outDir = "other"
  /\ Untouched
  /\ ~convLog.writeSkill
  /\ convError = CliError("Target directory is not a skill.", 2)

\* C19: when convertBook exits after it created the temporary directory, the
\* directory is gone, unless the conversion failed and keepTemp is set: then
\* it is still there; after a success it is gone also with keepTemp
TempDirRemovedUnlessKeptOnFailure ==
  (Exited /\ tempDir # "undefined") =>
    /\ tempDir \in {"present", "removed"}
    /\ tempDir = "present" <=> (convPc = "threw" /\ convOptions.keepTemp)
    /\ convPc = "returned" => tempDir = "removed" /\ conversionSucceeded

\* writeSkill failed with keepTemp set: the temporary directory is kept
KeptAfterFailedWrite ==
  /\ convPc = "threw"
  /\ convOptions.keepTemp
  /\ convLog.writeSkill
  /\ ~conversionSucceeded
  /\ tempDir = "present"

====
